---- MODULE Spec2Model ----
(***************************************************************************)
(* Model of the hexdocs wrapper worker (src/src/index.ts, the current      *)
(* version of the worker that starts at line 401 of the file).             *)
(*                                                                         *)
(* Strings of the program are kept as structured values:                   *)
(*   - a URL is a record [origin, dir, stem, ext, search, hash]; dir is    *)
(*     the sequence of directory segments, stem/ext the last segment       *)
(*     split at its extension ("Mod" / "html");                            *)
(*   - a request pathname is the sequence of its non-empty segments;       *)
(*   - an optional value is the string "undefined" (strings) or the empty  *)
(*     sequence (other values, a present value v being <<v>>).             *)
(***************************************************************************)
EXTENDS Integers, Sequences, FiniteSets, TLC

VARIABLES
    req,      \* req[r]: the Request and the fetcher handed to handleRequest
    pc,       \* pc[r]: where invocation r of handleRequest is suspended
    loc,      \* loc[f]: the local variables of the invocation using frame f
    calls,    \* calls[r]: the upstream URLs invocation r has passed to the fetcher, in order
    inflight, \* inflight[r]: the fetches of r that were issued and have not completed
    resp,     \* resp[r]: the Response returned by invocation r (NoResponse before it returns)
    overlap,  \* whether an invocation ran while another one was suspended at an await
    tmIn,     \* argument of a direct buildTaskMap call
    tmOut,    \* its result (<<>> before the call)
    arg,      \* arguments of a direct call of one of the text functions
    out    \* <<>> before that call, <<outcome>> after it

vars == <<req, pc, loc, calls, inflight, resp, overlap, tmIn, tmOut, arg, out>>

(***************************************************************************)
(* Bounds of the model                                                     *)
(***************************************************************************)
NReq == 2          \* concurrent invocations of handleRequest
MaxPresent == 2    \* entries of each kind in an index handed to buildTaskMap
MaxLines == 3      \* lines of a page handed to a line-by-line function
MaxText == 4       \* pieces of a text handed to decodeHtmlEntities
MaxElements == 2   \* elements of an HTML text handed to htmlToMarkdown
MaxOptions == 3    \* entries of an option list handed to buildOptionsTable

(***************************************************************************)
(* Program constants                                                       *)
(***************************************************************************)
UPSTREAM_ORIGIN == "https://hexdocs.pm"
WRAPPER_ORIGIN == "https://w"
EXTERNAL_ORIGIN == "https://ext.example"
YEAR_TTL_SECONDS == 31536000
HOUR_TTL_SECONDS == 3600
MAX_RELATED_LINKS == 30
MAX_RELATED_PAGES == 20
MAX_GUIDES_LISTED == 30

undefined == "undefined"

(***************************************************************************)
(* Small sequence helpers                                                  *)
(***************************************************************************)
Range(s) == {s[i] : i \in DOMAIN s}

Take(s, n) == SubSeq(s, 1, IF Len(s) < n THEN Len(s) ELSE n)

\* Array.prototype.map
MapSeq(F(_), s) == [i \in DOMAIN s |-> F(s[i])]

\* the elements of s without later repetitions (insertion order of a JS Set)
RECURSIVE Dedup(_)
Dedup(s) ==
    IF s = <<>> THEN <<>>
    ELSE LET front == Dedup(SubSeq(s, 1, Len(s) - 1))
             last == s[Len(s)]
         IN  IF last \in Range(front) THEN front ELSE Append(front, last)

RECURSIVE Flatten(_)
Flatten(ss) == IF ss = <<>> THEN <<>> ELSE Head(ss) \o Flatten(Tail(ss))

NoDuplicates(s) == \A i, j \in DOMAIN s : i # j => s[i] # s[j]

IsSubsequence(s, t) ==
    \E f \in [DOMAIN s -> DOMAIN t] :
        /\ \A i \in DOMAIN s : s[i] = t[f[i]]
        /\ \A i, j \in DOMAIN s : i < j => f[i] < f[j]

(***************************************************************************)
(* URLs and link targets.  A link target (href) as written in a page and   *)
(* a URL string produced by the program have the same shape; kind tells    *)
(* what `new URL(href, base)` makes of it:                                  *)
(*   "abs"   an absolute URL            "rel"   a sibling file, e.g. B.html *)
(*   "root"  an absolute path, e.g. /pkg/B.html                             *)
(*   "frag"  "#x"                       "empty" ""                          *)
(*   "mailto", "javascript"             "bad"   `new URL` throws            *)
(***************************************************************************)
Href(kind, origin, dir, stem, ext, search, hash) ==
    [kind |-> kind, origin |-> origin, dir |-> dir, stem |-> stem,
     ext |-> ext, search |-> search, hash |-> hash]

Url(origin, dir, stem, ext) == Href("abs", origin, dir, stem, ext, "", "")

RelHref(stem, ext) == Href("rel", "", <<>>, stem, ext, "", "")
FragHref(hash) == Href("frag", "", <<>>, "", "", "", hash)
BadHref(stem, ext) == Href("bad", "", <<>>, stem, ext, "", "")
MailtoHref == Href("mailto", "", <<>>, "", "", "", "")
JavascriptHref == Href("javascript", "", <<>>, "", "", "", "")
EmptyHref == Href("empty", "", <<>>, "", "", "", "")

\* `${origin}${basePath}/${id}.html`
PageUrl(origin, basePath, id) == Url(origin, basePath, id, "html")

\* URL.host of the origins that occur
HostOf(origin) ==
    CASE origin = "https://hexdocs.pm" -> "hexdocs.pm"
      [] origin = "http://hexdocs.pm" -> "hexdocs.pm"
      [] origin = "https://w" -> "w"
      [] OTHER -> origin

\* whether `new URL(href, base)` returns (it throws on a malformed href)
Parses(href) == href.kind # "bad"

\* new URL(href, base) for an href that parses
newURL(href, base) ==
    CASE href.kind = "rel" ->
            Href("abs", base.origin, base.dir, href.stem, href.ext,
                 href.search, href.hash)
      [] href.kind = "root" ->
            Href("abs", base.origin, href.dir, href.stem, href.ext,
                 href.search, href.hash)
      [] href.kind = "frag" -> [base EXCEPT !.hash = href.hash]
      [] href.kind = "empty" -> [base EXCEPT !.hash = ""]
      [] OTHER -> href

SamePathname(a, b) == a.dir = b.dir /\ a.stem = b.stem /\ a.ext = b.ext

\* whether an exception leaves normalizeLinkTarget: what `new URL` throws
\* in the try block is caught (the first: a variant without the catch)
normalizeLinkTargetUncaught(href, baseUrl) ==
    href.kind \notin {"empty", "frag", "mailto", "javascript"} /\ ~Parses(href)

normalizeLinkTargetThrows(href, baseUrl) == FALSE

\* a variant that rewrites to the wrapper origin and the path alone
normalizeLinkTargetPathOnly(href, baseUrl, wrapperOrigin) ==
    IF href.kind \in {"empty", "frag", "mailto", "javascript"} THEN href
    ELSE IF ~Parses(href) THEN href
    ELSE LET resolved == newURL(href, baseUrl)
         IN  IF HostOf(resolved.origin) = "hexdocs.pm"
             THEN [resolved EXCEPT !.origin = wrapperOrigin,
                                   !.search = "", !.hash = ""]
             ELSE resolved

normalizeLinkTarget(href, baseUrl, wrapperOrigin) ==
    IF href.kind \in {"empty", "frag", "mailto", "javascript"} THEN href
    ELSE IF ~Parses(href) THEN href
    ELSE LET resolved == newURL(href, baseUrl)
         IN  IF HostOf(resolved.origin) = "hexdocs.pm"
             THEN [resolved EXCEPT !.origin = wrapperOrigin]
             ELSE resolved

\* normalizeLinkTarget(...) ?? href
buildWrapperUrl(href, baseUrl, wrapperOrigin) ==
    normalizeLinkTarget(href, baseUrl, wrapperOrigin)

toMarkdownUrl(url) ==
    IF url.ext = "md" /\ url.search = "" /\ url.hash = "" THEN url
    ELSE IF url.ext = "html" THEN [url EXCEPT !.ext = "md"]
    ELSE IF url.hash # "" THEN [url EXCEPT !.hash = url.hash \o ".md"]
    ELSE IF url.search # "" THEN [url EXCEPT !.search = url.search \o ".md"]
    ELSE IF url.ext = "" THEN [url EXCEPT !.ext = "md"]
    ELSE [url EXCEPT !.ext = url.ext \o ".md"]

\* null is <<>>, a resolved URL u is <<u>>
resolveRelatedLink(href, baseUrl, wrapperOrigin) ==
    IF href.kind \in {"empty", "mailto", "javascript"} THEN <<>>
    ELSE IF ~Parses(href) THEN <<>>
    ELSE LET resolved == newURL(href, baseUrl)
         IN  IF HostOf(resolved.origin) = "hexdocs.pm"
             THEN <<[resolved EXCEPT !.origin = wrapperOrigin]>>
             ELSE <<resolved>>

(***************************************************************************)
(* Pages.  A Markdown page is                                              *)
(*   [title, headingRun, para, items, warnings, workflow, specs, optsTypes] *)
(* title: the text of its first-level heading (undefined: none);           *)
(* headingRun: the text from there to the next backtick of the page or to  *)
(* its end, trimmed (the title itself when the heading is `# `Title``);    *)
(* para: its first paragraph; items: in document order, the Markdown       *)
(* links [t |-> "link", label, href] and the other mentions of dotted      *)
(* identifiers [t |-> "ref", name]; warnings: the texts of its NOTE: /     *)
(* WARNING: / CAUTION: lines; workflow: the operational-workflow steps its *)
(* keywords select; specs: the functions with an @spec; optsTypes: the     *)
(* `*_opts` map types declared with fields.                                *)
(***************************************************************************)
Doc(title, headingRun, para, items, warnings, workflow, specs, optsTypes) ==
    [title |-> title, headingRun |-> headingRun, para |-> para, items |-> items, warnings |-> warnings,
     workflow |-> workflow, specs |-> specs, optsTypes |-> optsTypes]

LinkItem(label, href) == [t |-> "link", label |-> label, href |-> href, name |-> ""]
RefItem(name) == [t |-> "ref", label |-> "", href |-> EmptyHref, name |-> name]

\* the strings of the model that /\b[A-Z][A-Za-z0-9_]*(?:\.[A-Za-z0-9_]+)+\b/ matches whole
ModuleShaped ==
    {"Ecto.Migration", "Ecto.Migrator", "Ecto.Repo", "Ecto.Schema",
     "Ecto.Changeset", "Ecto.Query", "Other.Mod", "AI.Error"}

\* the file stems of the model that begin with a capital letter
CapitalStems == ModuleShaped \cup {"Other", "Mod"}

rewriteMarkdownLinks(markdown, baseUrl, wrapperOrigin) ==
    [markdown EXCEPT !.items =
        [i \in DOMAIN markdown.items |->
            LET item == markdown.items[i]
            IN  IF item.t = "link"
                THEN [item EXCEPT !.href =
                        normalizeLinkTarget(item.href, baseUrl, wrapperOrigin)]
                ELSE item]]

linkTargets(markdown) ==
    MapSeq(LAMBDA item : item.href,
           SelectSeq(markdown.items, LAMBDA item : item.t = "link"))

\* a variant that keeps the links to the page itself
relatedLinkSetWithSelf(markdown, baseUrl, wrapperOrigin) ==
    Dedup(Flatten([i \in DOMAIN linkTargets(markdown) |->
        resolveRelatedLink(linkTargets(markdown)[i], baseUrl, wrapperOrigin)]))

\* links.add(...) for every match that resolves and is not the page itself
relatedLinkSet(markdown, baseUrl, wrapperOrigin) ==
    Dedup(Flatten([i \in DOMAIN linkTargets(markdown) |->
        LET resolved == resolveRelatedLink(linkTargets(markdown)[i], baseUrl,
                                           wrapperOrigin)
        IN  IF resolved = <<>> THEN <<>>
            ELSE IF /\ resolved[1].origin = baseUrl.origin
                    /\ SamePathname(resolved[1], baseUrl)
                 THEN <<>>
                 ELSE resolved]))

extractRelatedLinks(markdown, baseUrl, wrapperOrigin) ==
    Take(relatedLinkSet(markdown, baseUrl, wrapperOrigin), MAX_RELATED_LINKS)

\* markdown.match(/^#\s+`?([^`]+)`?/m)?.[1]?.trim() ?? null: the class
\* [^`] matches line ends too, so the capture runs from the heading's text to
\* the next backtick of the page or to its end
extractModuleName(markdown) ==
    IF markdown.title = undefined THEN <<>> ELSE <<markdown.headingRun>>

\* the dotted identifiers of the page text, in order of occurrence
dottedIdentifiers(markdown) ==
    (IF markdown.title \in ModuleShaped THEN <<markdown.title>> ELSE <<>>)
    \o Flatten([i \in DOMAIN markdown.items |->
        LET item == markdown.items[i]
        IN  IF item.t = "ref" THEN <<item.name>>
            ELSE (IF item.label \in ModuleShaped THEN <<item.label>> ELSE <<>>)
                 \o (IF item.href.stem \in CapitalStems /\ item.href.ext # ""
                     THEN <<item.href.stem \o "." \o item.href.ext>>
                     ELSE <<>>)])

extractModuleReferences(markdown, knownModules) ==
    Dedup(SelectSeq(dottedIdentifiers(markdown),
        LAMBDA name : knownModules = {} \/ name \in knownModules))

(***************************************************************************)
(* An HTML page is [h1, para, anchors, dataMarkdownUrl, warnings]:         *)
(* anchors are its <a href> elements [href, text], dataMarkdownUrl the     *)
(* values of its data-markdown-url attributes.                             *)
(***************************************************************************)
HtmlPage(h1, para, anchors, dataMarkdownUrl, warnings) ==
    [h1 |-> h1, para |-> para, anchors |-> anchors,
     dataMarkdownUrl |-> dataMarkdownUrl, warnings |-> warnings]

Anchor(href, text) == [href |-> href, text |-> text]

\* an anchor with text becomes [text](href), one without its bare href
htmlToMarkdown(html) ==
    Doc(IF html.h1 = "" THEN undefined ELSE html.h1,
        IF html.h1 = "" THEN undefined
        ELSE IF html.para = undefined /\ html.anchors = <<>> /\ html.warnings = <<>>
             THEN html.h1
             ELSE html.h1 \o "\n\n"
                  \o (IF html.para = undefined THEN "" ELSE html.para),
        html.para,
        Flatten([i \in DOMAIN html.anchors |->
            LET a == html.anchors[i]
            IN  IF a.text # "" THEN <<LinkItem(a.text, a.href)>>
                ELSE IF a.href.stem \in CapitalStems /\ a.href.ext # ""
                     THEN <<RefItem(a.href.stem \o "." \o a.href.ext)>>
                     ELSE <<>>]),
        html.warnings, <<>>, <<>>, <<>>)

\* the result is [t |-> "null"], [t |-> "url", url |-> u] or, when
\* `new URL(preferred, htmlUrl)` throws, [t |-> "throw"]
findMarkdownUrlFromHtml(html, htmlUrl) ==
    LET hasExpected == htmlUrl.ext = "html"
        containsMd(h) == h.ext = "md"
        candidates ==
            SelectSeq(html.dataMarkdownUrl, containsMd)
            \o SelectSeq(MapSeq(LAMBDA a : a.href, html.anchors), containsMd)
        includesExpected(c) == c.stem = htmlUrl.stem /\ c.ext = "md"
        found == SelectSeq(candidates, includesExpected)
        preferred ==
            IF hasExpected /\ found # <<>> THEN <<found[1]>>
            ELSE IF candidates # <<>> THEN <<candidates[1]>>
            ELSE <<>>
        none == [t |-> "null", url |-> EmptyHref]
    IN  IF candidates = <<>> /\ hasExpected
        THEN [t |-> "url", url |-> Url(htmlUrl.origin, htmlUrl.dir, htmlUrl.stem, "md")]
        ELSE IF preferred = <<>> THEN none
        ELSE IF ~Parses(preferred[1]) THEN [t |-> "throw", url |-> EmptyHref]
        ELSE [t |-> "url", url |-> newURL(preferred[1], htmlUrl)]

(***************************************************************************)
(* Package index entries                                                   *)
(***************************************************************************)
ModuleEntry(name, summary, url, markdown_url, deprecated, group) ==
    [name |-> name, summary |-> summary, url |-> url,
     markdown_url |-> markdown_url, deprecated |-> deprecated, group |-> group]

GuideEntry(id, title, group, url) ==
    [id |-> id, title |-> title, group |-> group, url |-> url]

TaskEntry(id, title, group, deprecated, url) ==
    [id |-> id, title |-> title, group |-> group, deprecated |-> deprecated,
     url |-> url]

\* new Map(entries.map((entry) => [key(entry), entry])): has and get.
\* A later entry with the same key replaces the earlier one.
MapHas(entries, Key(_), k) == \E i \in DOMAIN entries : Key(entries[i]) = k

MapGet(entries, Key(_), k) ==
    entries[CHOOSE i \in DOMAIN entries :
                /\ Key(entries[i]) = k
                /\ \A j \in DOMAIN entries : j > i => Key(entries[j]) # k]

NameOf(entry) == entry.name
TitleOf(entry) == entry.title
IdOf(entry) == entry.id

(***************************************************************************)
(* buildTaskMap                                                            *)
(***************************************************************************)
hasGuide(index, id) == MapHas(index.guides, IdOf, id)

\* hasModule answering for the module list as a whole
hasModuleAny(index, name) == index.modules # <<>>
hasModule(index, name) == MapHas(index.modules, NameOf, name)

hasTask(index, title) == MapHas(index.tasks, TitleOf, title)

\* a variant that keeps every point
uniqueByUrlKeepAll(points) == points

\* points.filter(...) with the `seen` set: the first point of each URL is kept
RECURSIVE uniqueByUrl(_)
uniqueByUrl(points) ==
    IF points = <<>> THEN <<>>
    ELSE LET front == uniqueByUrl(SubSeq(points, 1, Len(points) - 1))
             last == points[Len(points)]
         IN  IF \E i \in DOMAIN front : front[i].url = last.url
             THEN front ELSE Append(front, last)

resolvePoints(entries, Key(_), Label(_), keys) ==
    Flatten([i \in DOMAIN keys |->
        IF MapHas(entries, Key, keys[i])
        THEN LET e == MapGet(entries, Key, keys[i])
             IN  <<[label |-> Label(e), url |-> e.url]>>
        ELSE <<>>])

entrypoints(index, moduleNames, taskTitles, guideIds) ==
    uniqueByUrl(resolvePoints(index.modules, NameOf, NameOf, moduleNames)
                \o resolvePoints(index.tasks, TitleOf, TitleOf, taskTitles)
                \o resolvePoints(index.guides, IdOf, TitleOf, guideIds))

TaskMapEntry(id, title, description, points) ==
    [id |-> id, title |-> title, description |-> description,
     entrypoints |-> points]

gettingStartedEntry(index) ==
    TaskMapEntry("getting-started", "Get started",
        "Install and configure the library.",
        entrypoints(index, <<>>, <<>>,
            IF hasGuide(index, "getting-started")
            THEN <<"getting-started">> ELSE <<"readme">>))

migrationsEntry(index) ==
    TaskMapEntry("migrations", "Run database migrations",
        "Create and apply schema changes safely.",
        entrypoints(index, <<"Ecto.Migration", "Ecto.Migrator">>,
            <<"mix ecto.gen.migration", "mix ecto.migrate", "mix ecto.rollback">>,
            <<"safe-ecto-migrations">>))

repoSetupEntry(index) ==
    TaskMapEntry("repo-setup", "Configure and manage the repo",
        "Connect to the database and manage lifecycle tasks.",
        entrypoints(index, <<"Ecto.Repo">>,
            <<"mix ecto.create", "mix ecto.drop", "mix ecto.reset">>,
            <<"getting-started">>))

schemasEntry(index) ==
    TaskMapEntry("schemas", "Define schemas and validate data",
        "Map data structures and validate changes.",
        entrypoints(index, <<"Ecto.Schema", "Ecto.Changeset">>, <<>>,
            <<"getting-started">>))

queriesEntry(index) ==
    TaskMapEntry("queries", "Query data",
        "Build composable, secure queries.",
        entrypoints(index, <<"Ecto.Query">>, <<>>, <<"getting-started">>))

\* the five guarded tasksOut.push(...) statements
tasksOut(index) ==
    (IF hasGuide(index, "getting-started") \/ hasGuide(index, "readme")
     THEN <<gettingStartedEntry(index)>> ELSE <<>>)
    \o (IF \/ hasModule(index, "Ecto.Migration")
           \/ hasModule(index, "Ecto.Migrator")
           \/ hasTask(index, "mix ecto.migrate")
        THEN <<migrationsEntry(index)>> ELSE <<>>)
    \o (IF hasModule(index, "Ecto.Repo") \/ hasTask(index, "mix ecto.create")
        THEN <<repoSetupEntry(index)>> ELSE <<>>)
    \o (IF hasModule(index, "Ecto.Schema") \/ hasModule(index, "Ecto.Changeset")
        THEN <<schemasEntry(index)>> ELSE <<>>)
    \o (IF hasModule(index, "Ecto.Query")
        THEN <<queriesEntry(index)>> ELSE <<>>)

\* every rule pushed without its guard, and the result returned unfiltered
buildTaskMapUnguarded(index) ==
    <<gettingStartedEntry(index), migrationsEntry(index), repoSetupEntry(index),
      schemasEntry(index), queriesEntry(index)>>

\* the rules as an else-if chain: the first rule that fires ends the evaluation
buildTaskMapFirstOnly(index) ==
    Take(SelectSeq(tasksOut(index), LAMBDA entry : Len(entry.entrypoints) # 0), 1)

buildTaskMap(index) ==
    SelectSeq(tasksOut(index), LAMBDA entry : Len(entry.entrypoints) # 0)

(***************************************************************************)
(* Request paths                                                           *)
(***************************************************************************)
\* a path segment, split at the extension of a file name
Seg(stem, ext) == [stem |-> stem, ext |-> ext]

\* the segments of the model that /^\d+\.\d+\.\d+([-.][0-9A-Za-z.-]+)?$/ matches
VersionSegments == {Seg("1.0.0", "")}

isVersionSegment(segment) == segment \in VersionSegments

SegText(segment) ==
    IF segment.ext = "" THEN segment.stem ELSE segment.stem \o "." \o segment.ext

\* pathname: the non-empty segments of the request path.  packageName and
\* version are <<>> when undefined; basePath and restPath are segment sequences.
parsePathContext(pathname) ==
    IF Len(pathname) < 2
    THEN [packageName |-> IF pathname = <<>> THEN <<>> ELSE <<SegText(pathname[1])>>,
          version |-> <<>>,
          restPath |-> <<>>,
          basePath |-> IF pathname = <<>> THEN <<>> ELSE <<SegText(pathname[1])>>,
          isVersioned |-> FALSE]
    ELSE IF isVersionSegment(pathname[2])
    THEN [packageName |-> <<SegText(pathname[1])>>,
          version |-> <<SegText(pathname[2])>>,
          restPath |-> SubSeq(pathname, 3, Len(pathname)),
          basePath |-> <<SegText(pathname[1]), SegText(pathname[2])>>,
          isVersioned |-> TRUE]
    ELSE [packageName |-> <<SegText(pathname[1])>>,
          version |-> <<>>,
          restPath |-> SubSeq(pathname, 2, Len(pathname)),
          basePath |-> <<SegText(pathname[1])>>,
          isVersioned |-> FALSE]

cacheTtlFor(version) ==
    IF version # <<>> THEN YEAR_TTL_SECONDS ELSE HOUR_TTL_SECONDS

\* pathname.endsWith("." + ext) / pathname.endsWith("/" + file)
endsWithExt(pathname, ext) ==
    pathname # <<>> /\ pathname[Len(pathname)].ext = ext

endsWithFile(pathname, stem, ext) ==
    pathname # <<>> /\ pathname[Len(pathname)] = Seg(stem, ext)

\* new URL(pathname, origin)
UrlOfPath(origin, pathname) ==
    IF pathname = <<>> THEN Url(origin, <<>>, "", "")
    ELSE Url(origin,
             MapSeq(SegText, SubSeq(pathname, 1, Len(pathname) - 1)),
             pathname[Len(pathname)].stem, pathname[Len(pathname)].ext)

(***************************************************************************)
(* The api-reference page and the sidebar payload                          *)
(*   api-reference HTML: [sidebarScript, rows]; sidebarScript is <<>> or   *)
(*   <<name>>, the first `sidebar_items-*.js` the page names; rows are the *)
(*   summary rows [href, name, adjacent, summary] of its "Modules"         *)
(*   section: the anchor's href and text, whether the row's                *)
(*   `summary-synopsis` div starts right after the anchor's `</a>`, and    *)
(*   the text of the synopsis paragraph (undefined: no synopsis).          *)
(*   sidebar text: [prefix, valid, value]: whether it starts with          *)
(*   `sidebarNodes=`, whether the rest parses as JSON, and the value.      *)
(*   A JSON value is [kind, modules, extras, tasks] with kind "null",      *)
(*   "scalar" or "object"; a member is [t, v] with t "absent", "null",     *)
(*   "array" (v its elements) or "scalar" (any other JSON value).          *)
(***************************************************************************)
ApiHtml(sidebarScript, rows) == [sidebarScript |-> sidebarScript, rows |-> rows]

Row(href, name, adjacent, summary) ==
    [href |-> href, name |-> name, adjacent |-> adjacent, summary |-> summary]

Member(t, v) == [t |-> t, v |-> v]
Absent == Member("absent", <<>>)

JsonValue(kind, modules, extras, tasks) ==
    [kind |-> kind, modules |-> modules, extras |-> extras, tasks |-> tasks]
JsonNull == JsonValue("null", Absent, Absent, Absent)

SidebarText(prefix, valid, value) ==
    [prefix |-> prefix, valid |-> valid, value |-> value]

SidebarModule(id, deprecated, group) ==
    [id |-> id, deprecated |-> deprecated, group |-> group]
SidebarExtra(id, group, title) == [id |-> id, group |-> group, title |-> title]
SidebarTask(id, deprecated, group, title) ==
    [id |-> id, deprecated |-> deprecated, group |-> group, title |-> title]

findSidebarItemsUrl(html, baseUrl) ==
    IF html.sidebarScript = <<>> THEN <<>>
    ELSE <<Url(baseUrl.origin, Append(baseUrl.dir, "dist"),
               html.sidebarScript[1], "js")>>

\* null is JsonNull
parseSidebarNodes(script) ==
    IF ~script.prefix THEN JsonNull
    ELSE IF ~script.valid THEN JsonNull
    ELSE script.value

\* The row pattern is `...<a href="(..)">(..)</a>[\s\S]*?(?:<div
\* class="summary-synopsis">...<p>(..)</p>...</div>)?`: the lazy run before
\* the optional group matches nothing, so the synopsis is captured only
\* when its div starts right after `</a>`; otherwise match[3] is undefined.
\* An empty capture is undefined as well.
rowSummary(row) ==
    IF row.adjacent /\ row.summary # "" THEN row.summary ELSE undefined

parseApiReferenceModules(html) ==
    MapSeq(LAMBDA row : [href |-> row.href, name |-> row.name,
                         summary |-> rowSummary(row)],
           SelectSeq(html.rows,
                     LAMBDA row : row.href.kind # "empty" /\ row.name # ""))

\* `nodes?.member ?? []`, and whether the .map(...) applied to it throws
memberOrEmpty(member) == IF member.t = "array" THEN member.v ELSE <<>>
mapThrows(member) == member.t = "scalar"

\* a ?? b for an optional boolean
orFalse(optional) == IF optional = <<>> THEN FALSE ELSE optional[1]

\* `sidebarModuleMap.get(entry.name)?.deprecated ?? false` and
\* `sidebarModuleMap.get(entry.name)?.group`; side is <<>> or <<module>>.
\* (the first: a variant that never consults the sidebar)
deprecatedNotMerged(side) == FALSE

deprecatedFromSidebar(side) ==
    IF side = <<>> THEN FALSE ELSE orFalse(side[1].deprecated)

groupFromSidebar(side) == IF side = <<>> THEN undefined ELSE side[1].group

\* the statements of buildPackageIndex after its last await: the result is
\* [threw, index]; threw means a TypeError left buildPackageIndex.  now is
\* what `new Date()` reads
assembleIndex(requestPath, wrapperOrigin, apiReferenceUrl, apiHtml, lastModified, sidebarUrl, nodes, now) ==
    LET ctx == parsePathContext(requestPath)
        sidebarModules == memberOrEmpty(nodes.modules)
        sidebarGet(name) ==
            IF MapHas(sidebarModules, IdOf, name)
            THEN <<MapGet(sidebarModules, IdOf, name)>> ELSE <<>>
        modulesFromApi == parseApiReferenceModules(apiHtml)
        fromApi(entry) ==
            LET url == buildWrapperUrl(entry.href, apiReferenceUrl, wrapperOrigin)
                side == sidebarGet(entry.name)
            IN  ModuleEntry(entry.name, entry.summary, url, toMarkdownUrl(url),
                    deprecatedFromSidebar(side), groupFromSidebar(side))
        fromSidebar(entry) ==
            LET url == PageUrl(wrapperOrigin, ctx.basePath, entry.id)
            IN  ModuleEntry(entry.id, undefined, url, toMarkdownUrl(url),
                    orFalse(entry.deprecated), entry.group)
        modules ==
            IF Len(modulesFromApi) > 0 THEN MapSeq(fromApi, modulesFromApi)
            ELSE MapSeq(fromSidebar, sidebarModules)
        guides ==
            MapSeq(LAMBDA entry :
                       GuideEntry(entry.id, entry.title, entry.group,
                           PageUrl(wrapperOrigin, ctx.basePath, entry.id)),
                   memberOrEmpty(nodes.extras))
        tasks ==
            MapSeq(LAMBDA entry :
                       TaskEntry(entry.id, entry.title, entry.group,
                           orFalse(entry.deprecated),
                           PageUrl(wrapperOrigin, ctx.basePath, entry.id)),
                   memberOrEmpty(nodes.tasks))
        contents == [modules |-> modules, guides |-> guides, tasks |-> tasks]
    IN  [threw |-> \/ mapThrows(nodes.modules)
                   \/ mapThrows(nodes.extras)
                   \/ mapThrows(nodes.tasks),
         index |->
            [package |-> ctx.packageName,
             version |-> ctx.version,
             is_versioned |-> ctx.isVersioned,
             base_path |-> ctx.basePath,
             origin |-> wrapperOrigin,
             last_modified |-> lastModified,
             source |-> [api_reference |-> apiReferenceUrl,
                         sidebar_items |-> sidebarUrl],
             modules |-> modules,
             guides |-> guides,
             tasks |-> tasks,
             task_map |-> buildTaskMap(contents),
             generated_at |-> now]]

(***************************************************************************)
(* Rendering                                                               *)
(***************************************************************************)
Response(status, type, ttl, body) ==
    [status |-> status, type |-> type, ttl |-> ttl, body |-> body]

NoResponse == Response(0, "", 0, <<>>)

markdownResponse(body, ttlSeconds, status) ==
    Response(status, "text/markdown", ttlSeconds, body)

jsonResponse(body, ttlSeconds, status) ==
    Response(status, "application/json", ttlSeconds, body)

buildInstructionHeader(origin, basePath) ==
    [h |-> "Navigation", origin |-> origin, basePath |-> basePath]

\* null is <<>>
buildSourceSection(pageUrl) ==
    IF pageUrl.ext \notin {"html", "md"} THEN <<>>
    ELSE <<[h |-> "Source URLs",
            html |-> [pageUrl EXCEPT !.ext = "html", !.search = "", !.hash = ""],
            markdown |-> [pageUrl EXCEPT !.ext = "md", !.search = "", !.hash = ""]]>>

renderRelatedPages(pages, origin, basePath) ==
    IF pages = <<>> THEN <<>>
    ELSE <<[h |-> "Related Pages",
            urls |-> MapSeq(LAMBDA page : PageUrl(origin, basePath, page), pages)]>>

\* a variant that returns null for an empty list
renderRelatedLinksOrNull(links) ==
    IF links = <<>> THEN <<>>
    ELSE <<[h |-> "Related Links", links |-> links, none |-> FALSE]>>

\* the heading and one line per link; for an empty list the heading and the
\* single line "- (none)" (none: whether that line was written)
renderRelatedLinks(links) ==
    <<[h |-> "Related Links", links |-> links, none |-> links = <<>>]>>

renderGuidesSection(guides) ==
    IF guides = <<>> THEN <<>>
    ELSE <<[h |-> "Guides", guides |-> Take(guides, MAX_GUIDES_LISTED)]>>

renderTaskMapSection(taskMap) ==
    IF taskMap = <<>> THEN <<>> ELSE <<[h |-> "Task Map", tasks |-> taskMap]>>

buildModuleSynopsis(moduleName, markdown, taskMap, relatedPages, moduleSummary, origin, basePath) ==
    IF moduleName = <<>> THEN <<>>
    ELSE LET purpose == IF moduleSummary # undefined THEN moduleSummary
                        ELSE markdown.para
             entries == Take(Dedup(markdown.specs), 5)
             matches(task) ==
                 \E i \in DOMAIN task.entrypoints :
                     \/ task.entrypoints[i].label = moduleName[1]
                     \/ /\ task.entrypoints[i].url.stem = moduleName[1]
                        /\ task.entrypoints[i].url.ext = "html"
                        /\ task.entrypoints[i].url.search = ""
                        /\ task.entrypoints[i].url.hash = ""
             taskMatches ==
                 Take(MapSeq(LAMBDA task : task.title, SelectSeq(taskMap, matches)), 3)
             seeAlso ==
                 MapSeq(LAMBDA page : [label |-> page,
                                       url |-> PageUrl(origin, basePath, page)],
                        Take(relatedPages, 5))
         IN  IF /\ purpose \in {undefined, ""}
                /\ entries = <<>> /\ taskMatches = <<>> /\ seeAlso = <<>>
             THEN <<>>
             ELSE <<[h |-> "Module Synopsis", purpose |-> purpose,
                     entrypoints |-> entries, tasks |-> taskMatches,
                     seeAlso |-> seeAlso]>>

extractWarnings(markdown) == Take(markdown.warnings, 3)

buildOperationalWorkflow(markdown) ==
    IF markdown.workflow = <<>> THEN <<>>
    ELSE <<[h |-> "Operational Workflow", steps |-> markdown.workflow]>>

buildAgentDataSection(markdown) ==
    IF markdown.optsTypes = <<>> THEN <<>>
    ELSE <<[h |-> "Agent Data", opts |-> markdown.optsTypes]>>

\* the statements of handleRequest from rewriteMarkdownLinks to the return of
\* the page; packageIndex is <<>> (null) or <<index>>
renderPage(pathname, rawMarkdown, packageIndex) ==
    LET ctx == parsePathContext(pathname)
        url == UrlOfPath(WRAPPER_ORIGIN, pathname)
        rewritten == rewriteMarkdownLinks(rawMarkdown, url, WRAPPER_ORIGIN)
        enhanced == rewritten
        moduleName == extractModuleName(rewritten)
        indexModules == IF packageIndex = <<>> THEN <<>> ELSE packageIndex[1].modules
        knownModules == {indexModules[i].name : i \in DOMAIN indexModules}
        relatedPages ==
            Take(SelectSeq(extractModuleReferences(enhanced, knownModules),
                           LAMBDA page : moduleName = <<>> \/ page # moduleName[1]),
                 MAX_RELATED_PAGES)
        own == SelectSeq(indexModules,
                         LAMBDA entry : moduleName # <<>> /\ entry.name = moduleName[1])
        moduleSummary == IF own = <<>> THEN undefined ELSE own[1].summary
        moduleSynopsis ==
            buildModuleSynopsis(moduleName, enhanced,
                IF packageIndex = <<>> THEN <<>> ELSE packageIndex[1].task_map,
                relatedPages, moduleSummary, WRAPPER_ORIGIN, ctx.basePath)
        warnings == extractWarnings(enhanced)
        warningsSection ==
            IF warnings = <<>> THEN <<>>
            ELSE <<[h |-> "Warnings", warnings |-> warnings]>>
        guidesSection ==
            IF packageIndex = <<>> THEN <<>>
            ELSE renderGuidesSection(packageIndex[1].guides)
    IN  markdownResponse(
            <<buildInstructionHeader(WRAPPER_ORIGIN, ctx.basePath)>>
            \o buildSourceSection(url)
            \o moduleSynopsis
            \o warningsSection
            \o buildOperationalWorkflow(enhanced)
            \o <<[h |-> "Page", markdown |-> enhanced]>>
            \o buildAgentDataSection(enhanced)
            \o renderRelatedPages(relatedPages, WRAPPER_ORIGIN, ctx.basePath)
            \o guidesSection
            \o renderRelatedLinks(
                   extractRelatedLinks(enhanced, url, WRAPPER_ORIGIN)),
            cacheTtlFor(ctx.version), 200)

\* buildLlmsReplacement after its await, with the header handleRequest adds
renderLlms(pathname, index) ==
    LET ctx == parsePathContext(pathname)
    IN  markdownResponse(
            <<buildInstructionHeader(WRAPPER_ORIGIN, ctx.basePath),
              [h |-> "Package", name |-> index.package, version |-> index.version,
               api_reference |-> index.source.api_reference,
               sidebar_items |-> index.source.sidebar_items]>>
            \o renderTaskMapSection(index.task_map)
            \o <<[h |-> "Modules", modules |-> index.modules]>>
            \o (IF index.guides = <<>> THEN <<>>
                ELSE <<[h |-> "Guides", guides |-> index.guides]>>)
            \o (IF index.tasks = <<>> THEN <<>>
                ELSE <<[h |-> "Mix Tasks", tasks |-> index.tasks]>>),
            cacheTtlFor(ctx.version), 200)

(***************************************************************************)
(* Errors.  An error is [message, details]; details is <<>> for an error   *)
(* that was not made by errorWithDetails (a rejected fetch, a TypeError).  *)
(***************************************************************************)
Details(attempted, status, fallback, fallback_status) ==
    [attempted |-> attempted, status |-> status, fallback |-> fallback,
     fallback_status |-> fallback_status]

\* an error whose details were not attached
errorWithoutDetails(message, details) == [message |-> message, details |-> <<>>]

errorWithDetails(message, details) == [message |-> message, details |-> <<details>>]

plainError(message) == [message |-> message, details |-> <<>>]

\* the catch block of handleRequest
errorResponse(pathname, error) ==
    LET ctx == parsePathContext(pathname)
        url == UrlOfPath(WRAPPER_ORIGIN, pathname)
        attempted == IF error.details = <<>> THEN url ELSE error.details[1].attempted
        status == IF error.details = <<>> THEN <<>> ELSE error.details[1].status
        fallback == IF error.details = <<>> THEN <<>> ELSE error.details[1].fallback
        fallbackStatus ==
            IF error.details = <<>> THEN <<>> ELSE error.details[1].fallback_status
    IN  IF endsWithFile(pathname, "index", "json")
        THEN jsonResponse(
                <<[h |-> "error", error |-> error.message, attempted |-> attempted,
                   status |-> status, fallback |-> fallback,
                   fallback_status |-> fallbackStatus]>>,
                HOUR_TTL_SECONDS, 502)
        ELSE markdownResponse(
                <<buildInstructionHeader(WRAPPER_ORIGIN, ctx.basePath),
                  [h |-> "Upstream Error", message |-> error.message,
                   attempted |-> attempted, status |-> status,
                   fallback |-> fallback,
                   fallback_status |->
                       IF fallback # <<>> THEN fallbackStatus ELSE <<>>]>>,
                HOUR_TTL_SECONDS, 502)

invalidRequest ==
    markdownResponse(<<[h |-> "Invalid Request"]>>, HOUR_TTL_SECONDS, 400)

(***************************************************************************)
(* Indexes handed to buildTaskMap in the direct-call specification         *)
(***************************************************************************)
BASE_PATH == <<"pkg", "1.0.0">>

ModuleNames ==
    <<"Ecto.Migration", "Ecto.Migrator", "Ecto.Repo", "Ecto.Schema",
      "Ecto.Changeset", "Ecto.Query", "Other.Mod">>

GuideIds == <<"getting-started", "readme", "safe-ecto-migrations", "other">>

TaskTitles ==
    <<"mix ecto.gen.migration", "mix ecto.migrate", "mix ecto.rollback",
      "mix ecto.create", "mix ecto.drop", "mix ecto.reset", "mix other">>

SampleModule(name) ==
    ModuleEntry(name, undefined, PageUrl(WRAPPER_ORIGIN, BASE_PATH, name),
        Url(WRAPPER_ORIGIN, BASE_PATH, name, "md"), FALSE, undefined)

SampleGuide(id) ==
    GuideEntry(id, id, undefined, PageUrl(WRAPPER_ORIGIN, BASE_PATH, id))

SampleTask(title) ==
    TaskEntry(title, title, undefined, FALSE,
        PageUrl(WRAPPER_ORIGIN, BASE_PATH, title))

Chosen(all, picked) == SelectSeq(all, LAMBDA x : x \in picked)

SmallSubsets(all) ==
    {S \in SUBSET Range(all) : Cardinality(S) <= MaxPresent}

TaskMapInputs ==
    {[modules |-> MapSeq(SampleModule, Chosen(ModuleNames, m)),
      guides |-> MapSeq(SampleGuide, Chosen(GuideIds, g)),
      tasks |-> MapSeq(SampleTask, Chosen(TaskTitles, t))] :
        m \in SmallSubsets(ModuleNames),
        g \in SmallSubsets(GuideIds),
        t \in SmallSubsets(TaskTitles)}

(***************************************************************************)
(* The fetcher.  handleRequest(request, fetcher) is given its fetcher; the *)
(* fetcher is the record of the answers it gives, one for each kind of     *)
(* upstream resource: [md, html, api, sidebar].  An answer is              *)
(* [settled, status, body]: settled is FALSE when the promise rejects.     *)
(***************************************************************************)
Answer(settled, status, body) ==
    [settled |-> settled, status |-> status, body |-> body]

\* Response.ok
ok(answer) == answer.status \in 200..299

KeyOf(url) ==
    CASE url.ext = "md" -> "md"
      [] url.ext = "js" -> "sidebar"
      [] url.stem = "api-reference" -> "api"
      [] OTHER -> "html"

fetchUpstream(fetcher, url) == fetcher[KeyOf(url)]

(***************************************************************************)
(* handleRequest as a process.  An invocation runs from one await of a     *)
(* fetch to the next; each step below is the code between two awaits,      *)
(* given the request q, the locals l kept across the await and the answer  *)
(* a of the awaited fetch.  A step yields                                  *)
(*   [pc, loc, fetch, resp]: the next suspension point, the locals, the    *)
(*   URL handed to the fetcher (<<>>: none) and the Response returned      *)
(*   (NoResponse: none yet).                                               *)
(***************************************************************************)
BlankDoc == Doc(undefined, undefined, undefined, <<>>, <<>>, <<>>, <<>>, <<>>)
BlankHtml == HtmlPage("", undefined, <<>>, <<>>, <<>>)
BlankApi == ApiHtml(<<>>, <<>>)
BlankSidebar == SidebarText(FALSE, FALSE, JsonNull)

Locals(response, html, rawMarkdown, apiHtml, sidebarUrl) ==
    [response |-> response, html |-> html, rawMarkdown |-> rawMarkdown,
     apiHtml |-> apiHtml, sidebarUrl |-> sidebarUrl]

NoLocals == Locals(0, BlankHtml, BlankDoc, BlankApi, <<>>)

Suspend(pcNext, l, url) ==
    [pc |-> pcNext, loc |-> l, fetch |-> <<url>>, resp |-> NoResponse]

Return(l, response) ==
    [pc |-> "done", loc |-> l, fetch |-> <<>>, resp |-> response]

upstreamUrl(q) == UrlOfPath(UPSTREAM_ORIGIN, q.pathname)

apiReferenceUrl(q) ==
    Url(UPSTREAM_ORIGIN, parsePathContext(q.pathname).basePath,
        "api-reference", "html")

isIndexJson(q) == endsWithFile(q.pathname, "index", "json")
isLlms(q) == endsWithFile(q.pathname, "llms", "txt")

\* buildPackageIndex is entered: its first await
enterBuildPackageIndex(q, l) == Suspend("awaitApiReference", l, apiReferenceUrl(q))

\* buildPackageIndex is entered before the page was retrieved
startPageIndexFirst(q) == enterBuildPackageIndex(q, NoLocals)

\* getMarkdownFromPath is entered: its first await
startPage(q) ==
    IF endsWithExt(q.pathname, "md")
    THEN Suspend("awaitMarkdown", NoLocals, upstreamUrl(q))
    ELSE Suspend("awaitHtml", NoLocals, upstreamUrl(q))

\* handleRequest up to its first await
startStep(q) ==
    LET ctx == parsePathContext(q.pathname)
    IN  IF ctx.packageName = <<>> \/ ctx.restPath = <<>>
        THEN Return(NoLocals, invalidRequest)
        ELSE IF isIndexJson(q) \/ isLlms(q)
        THEN enterBuildPackageIndex(q, NoLocals)
        ELSE startPage(q)

\* an error reaches the catch block of handleRequest
fail(q, l, error) == Return(l, errorResponse(q.pathname, error))

rejected == plainError("fetch rejected")

\* getMarkdownFromPath returned rawMarkdown
pageRetrieved(q, l, rawMarkdown) ==
    enterBuildPackageIndex(q, [l EXCEPT !.rawMarkdown = rawMarkdown])

htmlUrlOf(q) == [upstreamUrl(q) EXCEPT !.ext = "html", !.search = ""]

\* a .md request that gives up at the first non-success answer
markdownStepNoFallback(q, l, a) ==
    IF ~a.settled THEN fail(q, l, rejected)
    ELSE IF ok(a) THEN pageRetrieved(q, l, a.body)
    ELSE fail(q, l, errorWithDetails("Upstream markdown fetch failed",
                      Details(upstreamUrl(q), <<a.status>>, <<>>, <<>>)))

\* after `await fetchUpstream(fetcher, upstreamUrl, ...)` of a .md request
markdownStep(q, l, a) ==
    IF ~a.settled THEN fail(q, l, rejected)
    ELSE IF ok(a) THEN pageRetrieved(q, l, a.body)
    ELSE Suspend("awaitFallbackHtml", [l EXCEPT !.response = a.status],
                 htmlUrlOf(q))

\* after `await fetchUpstream(fetcher, htmlUrl, ...)` of a .md request
fallbackHtmlStep(q, l, a) ==
    IF ~a.settled THEN fail(q, l, rejected)
    ELSE IF ok(a) THEN pageRetrieved(q, l, htmlToMarkdown(a.body))
    ELSE fail(q, l, errorWithDetails("Upstream markdown fetch failed",
                      Details(upstreamUrl(q), <<l.response>>,
                              <<htmlUrlOf(q)>>, <<a.status>>)))

\* a variant that goes on to the package index when the page fetch failed
htmlStepCarryingOn(q, l, a) ==
    IF ~a.settled \/ ~ok(a) THEN enterBuildPackageIndex(q, l)
    ELSE LET markdownUrl == findMarkdownUrlFromHtml(a.body, upstreamUrl(q))
         IN  IF markdownUrl.t = "throw" THEN fail(q, l, plainError("Invalid URL"))
             ELSE IF markdownUrl.t = "url"
             THEN Suspend("awaitCopyMarkdown", [l EXCEPT !.html = a.body],
                          markdownUrl.url)
             ELSE pageRetrieved(q, l, htmlToMarkdown(a.body))

\* after `await fetchUpstream(fetcher, upstreamUrl, ...)` of another page
htmlStep(q, l, a) ==
    IF ~a.settled THEN fail(q, l, rejected)
    ELSE IF ~ok(a)
    THEN fail(q, l, errorWithDetails("Upstream html fetch failed",
                      Details(upstreamUrl(q), <<a.status>>, <<>>, <<>>)))
    ELSE LET markdownUrl == findMarkdownUrlFromHtml(a.body, upstreamUrl(q))
         IN  IF markdownUrl.t = "throw" THEN fail(q, l, plainError("Invalid URL"))
             ELSE IF markdownUrl.t = "url"
             THEN Suspend("awaitCopyMarkdown", [l EXCEPT !.html = a.body],
                          markdownUrl.url)
             ELSE pageRetrieved(q, l, htmlToMarkdown(a.body))

\* after `await fetchUpstream(fetcher, new URL(markdownUrl), ...)`
copyMarkdownStep(q, l, a) ==
    IF ~a.settled THEN fail(q, l, rejected)
    ELSE IF ok(a) THEN pageRetrieved(q, l, a.body)
    ELSE pageRetrieved(q, l, htmlToMarkdown(l.html))

\* buildPackageIndex threw and nothing catches it
indexFailedFatal(q, l, error) == fail(q, l, error)

\* buildPackageIndex threw
indexFailed(q, l, error) ==
    IF isIndexJson(q) \/ isLlms(q) THEN fail(q, l, error)
    ELSE Return(l, renderPage(q.pathname, l.rawMarkdown, <<>>))

\* buildPackageIndex returned index
indexBuilt(q, l, index) ==
    IF isIndexJson(q)
    THEN Return(l, jsonResponse(<<[h |-> "index", index |-> index]>>,
                       cacheTtlFor(parsePathContext(q.pathname).version), 200))
    ELSE IF isLlms(q) THEN Return(l, renderLlms(q.pathname, index))
    ELSE Return(l, renderPage(q.pathname, l.rawMarkdown, <<index>>))

\* buildPackageIndex from the resolved sidebar nodes to its end
finishIndex(q, l, apiHtml, sidebarUrl, nodes) ==
    LET built == assembleIndex(q.pathname, WRAPPER_ORIGIN, apiReferenceUrl(q),
                               apiHtml, undefined, sidebarUrl, nodes, q.now)
    IN  IF built.threw THEN indexFailed(q, l, plainError("TypeError"))
        ELSE indexBuilt(q, l, built.index)

\* after `await fetchUpstream(fetcher, apiReferenceUrl, ...)`
apiReferenceStep(q, l, a) ==
    IF ~a.settled THEN indexFailed(q, l, rejected)
    ELSE IF ~ok(a)
    THEN indexFailed(q, l, errorWithDetails("Upstream api-reference fetch failed",
                            Details(apiReferenceUrl(q), <<a.status>>, <<>>, <<>>)))
    ELSE LET sidebarUrl == findSidebarItemsUrl(a.body, apiReferenceUrl(q))
         IN  IF sidebarUrl # <<>>
             THEN Suspend("awaitSidebar",
                          [l EXCEPT !.apiHtml = a.body, !.sidebarUrl = sidebarUrl],
                          sidebarUrl[1])
             ELSE finishIndex(q, l, a.body, <<>>, JsonNull)

\* after `await fetchUpstreamText(fetcher, resolved, ...)`
sidebarStep(q, l, a) ==
    IF ~a.settled THEN indexFailed(q, l, rejected)
    ELSE finishIndex(q, l, l.apiHtml, l.sidebarUrl,
                     IF ok(a) THEN parseSidebarNodes(a.body) ELSE JsonNull)

\* the step taken when the fetch awaited at suspension point p completes
stepAt(p, q, l, a) ==
    CASE p = "awaitMarkdown" -> markdownStep(q, l, a)
      [] p = "awaitFallbackHtml" -> fallbackHtmlStep(q, l, a)
      [] p = "awaitHtml" -> htmlStep(q, l, a)
      [] p = "awaitCopyMarkdown" -> copyMarkdownStep(q, l, a)
      [] p = "awaitApiReference" -> apiReferenceStep(q, l, a)
      [] p = "awaitSidebar" -> sidebarStep(q, l, a)

\* handleRequest(q.request, q.fetcher) run on its own, from a step result on
RECURSIVE runFrom(_, _)
runFrom(q, result) ==
    IF result.pc = "done" THEN result.resp
    ELSE runFrom(q, stepAt(result.pc, q, result.loc,
                           fetchUpstream(q.fetcher, result.fetch[1])))

handledAlone(q) == runFrom(q, startStep(q))

(***************************************************************************)
(* State machine                                                           *)
(***************************************************************************)
Requests == 1..NReq

Suspended ==
    {"awaitMarkdown", "awaitFallbackHtml", "awaitHtml", "awaitCopyMarkdown",
     "awaitApiReference", "awaitSidebar"}

\* one frame for the locals of every invocation
SharedFrame(r) == 1

\* the locals of an invocation live in its own frame
Frame(r) == r

Apply(r, result) ==
    /\ pc' = [pc EXCEPT ![r] = result.pc]
    /\ loc' = [loc EXCEPT ![Frame(r)] = result.loc]
    /\ resp' = [resp EXCEPT ![r] = result.resp]
    /\ calls' = [calls EXCEPT ![r] = calls[r] \o result.fetch]
    /\ inflight' = [inflight EXCEPT ![r] = Range(result.fetch)]
    /\ overlap' = (overlap \/ \E other \in Requests \ {r} : pc[other] \in Suspended)
    /\ UNCHANGED <<req, tmIn, tmOut, arg, out>>

\* the fetch awaited by r, and its answer
Awaited(r) == calls[r][Len(calls[r])]
Answered(r) == fetchUpstream(req[r].fetcher, Awaited(r))

Start(r) ==
    /\ pc[r] = "start"
    /\ Apply(r, startStep(req[r]))

MarkdownReturns(r) ==
    /\ pc[r] = "awaitMarkdown"
    /\ Apply(r, markdownStep(req[r], loc[Frame(r)], Answered(r)))

FallbackHtmlReturns(r) ==
    /\ pc[r] = "awaitFallbackHtml"
    /\ Apply(r, fallbackHtmlStep(req[r], loc[Frame(r)], Answered(r)))

HtmlReturns(r) ==
    /\ pc[r] = "awaitHtml"
    /\ Apply(r, htmlStep(req[r], loc[Frame(r)], Answered(r)))

CopyMarkdownReturns(r) ==
    /\ pc[r] = "awaitCopyMarkdown"
    /\ Apply(r, copyMarkdownStep(req[r], loc[Frame(r)], Answered(r)))

ApiReferenceReturns(r) ==
    /\ pc[r] = "awaitApiReference"
    /\ Apply(r, apiReferenceStep(req[r], loc[Frame(r)], Answered(r)))

SidebarReturns(r) ==
    /\ pc[r] = "awaitSidebar"
    /\ Apply(r, sidebarStep(req[r], loc[Frame(r)], Answered(r)))

Next ==
    \E r \in Requests :
        \/ Start(r)
        \/ MarkdownReturns(r)
        \/ FallbackHtmlReturns(r)
        \/ HtmlReturns(r)
        \/ CopyMarkdownReturns(r)
        \/ ApiReferenceReturns(r)
        \/ SidebarReturns(r)

(***************************************************************************)
(* The line-by-line functions.  A page is the sequence of its lines        *)
(* (markdown.split("\n")); a line is [kind, text]:                          *)
(*   "heading"  one to six `#`, white space and a title, optionally in     *)
(*              backticks, and nothing else; text is the title             *)
(*   "anchor"   a line starting with `[🔗](`                                *)
(*   "blank"    an empty line or white space                               *)
(*   "fence"    a line starting with ```                                   *)
(*   "text"     any other line; text is the line                           *)
(*   "summary"  a line `Summary: ` followed by text                        *)
(*   "spec"     a line `Spec: ` followed by text in backticks              *)
(*   "table"    a line of an options table; text is the line               *)
(* Lines carry no leading or trailing white space.                         *)
(***************************************************************************)
Line(kind, text) == [kind |-> kind, text |-> text]

Heading(title) == Line("heading", title)
BlankLine == Line("blank", "")

\* the titles of the model that /(Error|Exception)/ matches
ExceptionTitles == {"ArgumentError", "MyException"}

\* the titles of the model that [A-Za-z0-9_!?]+ matches whole
Identifiers == {"t", "init", "fetch", "other", "ArgumentError", "MyException",
                "Types", "Options", "Overview"}

\* a variant without the three `...Inserted` flags
insertSectionHeadingsEachTime(markdown, typeNames, callbackNames) ==
    Flatten([i \in DOMAIN markdown |->
        LET line == markdown[i]
            title == IF line.kind = "heading" THEN line.text ELSE ""
        IN  (IF title # "" /\ title \in typeNames
             THEN <<Heading("Types"), BlankLine>> ELSE <<>>)
            \o (IF title # "" /\ title \in callbackNames
                THEN <<Heading("Callbacks"), BlankLine>> ELSE <<>>)
            \o (IF title # "" /\ title \in ExceptionTitles
                THEN <<Heading("Exceptions"), BlankLine>> ELSE <<>>)
            \o <<line>>])

\* the loop of insertSectionHeadings from some line on; inserted holds
\* typesInserted, callbacksInserted and exceptionsInserted
RECURSIVE insertSectionHeadingsFrom(_, _, _, _)
insertSectionHeadingsFrom(lines, typeNames, callbackNames, inserted) ==
    IF lines = <<>> THEN <<>>
    ELSE LET line == Head(lines)
             title == IF line.kind = "heading" THEN line.text ELSE ""
             types == title # "" /\ title \in typeNames /\ ~inserted.types
             callbacks ==
                 title # "" /\ title \in callbackNames /\ ~inserted.callbacks
             exceptions ==
                 title # "" /\ ~inserted.exceptions /\ title \in ExceptionTitles
         IN  (IF types THEN <<Heading("Types"), BlankLine>> ELSE <<>>)
             \o (IF callbacks THEN <<Heading("Callbacks"), BlankLine>> ELSE <<>>)
             \o (IF exceptions THEN <<Heading("Exceptions"), BlankLine>> ELSE <<>>)
             \o <<line>>
             \o insertSectionHeadingsFrom(Tail(lines), typeNames, callbackNames,
                    [types |-> inserted.types \/ types,
                     callbacks |-> inserted.callbacks \/ callbacks,
                     exceptions |-> inserted.exceptions \/ exceptions])

insertSectionHeadings(markdown, typeNames, callbackNames) ==
    insertSectionHeadingsFrom(markdown, typeNames, callbackNames,
        [types |-> FALSE, callbacks |-> FALSE, exceptions |-> FALSE])

\* the argument after the call: the copy [...options] is sorted, not options
optionsAfterTable(options) == options

\* a variant that does not sort
buildOptionsTableUnsorted(options) ==
    <<Heading("Options"), Line("table", "| Key | Required | Type |"),
      Line("table", "| --- | --- | --- |")>>
    \o MapSeq(LAMBDA option :
                  Line("table", "| " \o option.key \o " | "
                                \o (IF option.required THEN "yes" ELSE "no")
                                \o " | " \o option.type \o " |"),
              options)

\* an option is [key, required, type]; required options first, the order
\* otherwise kept (Array.prototype.sort is stable)
buildOptionsTable(options) ==
    <<Heading("Options"), Line("table", "| Key | Required | Type |"),
      Line("table", "| --- | --- | --- |")>>
    \o MapSeq(LAMBDA option :
                  Line("table", "| " \o option.key \o " | "
                                \o (IF option.required THEN "yes" ELSE "no")
                                \o " | " \o option.type \o " |"),
              SelectSeq(options, LAMBDA option : option.required)
              \o SelectSeq(options, LAMBDA option : ~option.required))

\* the heading pattern of injectFunctionEnhancements
IsFunctionHeading(line) == line.kind = "heading" /\ line.text \in Identifiers

\* `pending` after a function heading: <<>> is null.  specs and
\* optionsByType are Maps (functions); options is <<>> when undefined
pendingFor(fnName, optionsByType, specs) ==
    IF fnName \notin DOMAIN specs THEN <<>>
    ELSE LET specInfo == specs[fnName]
         IN  <<[spec |-> specInfo.spec,
                options |-> IF /\ specInfo.optsType # <<>>
                               /\ specInfo.optsType[1] \in DOMAIN optionsByType
                            THEN optionsByType[specInfo.optsType[1]]
                            ELSE <<>>,
                inserted |-> FALSE]>>

\* the lines flushInsertions pushes for a pending entry not yet inserted
flushInsertions(entry) ==
    LET specLines == IF entry.spec # "" THEN <<Line("spec", entry.spec)>> ELSE <<>>
        table == IF entry.options # <<>>
                 THEN (IF specLines # <<>> THEN <<BlankLine>> ELSE <<>>)
                      \o buildOptionsTable(entry.options)
                 ELSE <<>>
        insertLines == specLines \o table
    IN  IF insertLines # <<>> THEN Append(insertLines, BlankLine) ELSE <<>>

\* the loop of injectFunctionEnhancements from some line on
RECURSIVE injectFrom(_, _, _, _)
injectFrom(lines, optionsByType, specs, pending) ==
    IF lines = <<>> THEN <<>>
    ELSE LET line == Head(lines)
             rest == Tail(lines)
         IN  IF IsFunctionHeading(line)
             THEN <<line>> \o injectFrom(rest, optionsByType, specs,
                                 pendingFor(line.text, optionsByType, specs))
             ELSE IF pending # <<>> /\ line.kind = "anchor"
             THEN <<line>> \o injectFrom(rest, optionsByType, specs, pending)
             ELSE IF pending # <<>> /\ ~pending[1].inserted
             THEN IF line.kind \in {"text", "summary", "spec", "table"}
                  THEN flushInsertions(pending[1])
                       \o <<IF line.kind = "summary" THEN line
                            ELSE Line("summary", line.text)>>
                       \o injectFrom(rest, optionsByType, specs, <<>>)
                  ELSE flushInsertions(pending[1])
                       \o <<line>>
                       \o injectFrom(rest, optionsByType, specs,
                              <<[pending[1] EXCEPT !.inserted = TRUE]>>)
             ELSE <<line>> \o injectFrom(rest, optionsByType, specs, pending)

injectFunctionEnhancements(markdown, optionsByType, specs) ==
    injectFrom(markdown, optionsByType, specs, <<>>)

\* a direct call of buildTaskMap
(***************************************************************************)
(* Code blocks: type declarations                                          *)
(*                                                                         *)
(* A page is a sequence of blocks [fenced, lines]: the lines between a     *)
(* pair of ``` fences, or the lines of a stretch outside them.  A line is  *)
(* [head, chunks]: head is <<name>> when the line holds                    *)
(* `@type name() :: %{` (the pattern of line 1210) and <<>> otherwise;     *)
(* chunks is what stands after the head, or the whole line:                *)
(*   field    a map field [form, key, type, nested], written               *)
(*            `optional(:key) => type`, `:key => type` or `key: type`;     *)
(*            the type of a nested field is a map type, its text is type   *)
(*            followed by the closing brace of that map type               *)
(*   close    a closing brace `}`                                          *)
(*   comment  `#` and the text after it                                    *)
(* Fields that follow one another on a line are separated by `, `.         *)
(***************************************************************************)
Block(fenced, lines) == [fenced |-> fenced, lines |-> lines]

CodeLine(head, chunks) == [head |-> head, chunks |-> chunks]

Field(form, key, type, nested) ==
    [kind |-> "field", form |-> form, key |-> key, type |-> type, nested |-> nested]
Close == [kind |-> "close"]
Comment == [kind |-> "comment"]

OptionEntry(key, required, type) == [key |-> key, required |-> required, type |-> type]

\* the text of the type of a field
TypeText(field) == field.type \o (IF field.nested THEN "}" ELSE "")

\* the text of a chunk
ChunkText(chunk) ==
    IF chunk.kind = "close" THEN "}"
    ELSE IF chunk.kind = "comment" THEN "# a comment"
    ELSE (IF chunk.form = "optional" THEN "optional(:" \o chunk.key \o ") => "
          ELSE IF chunk.form = "arrow" THEN ":" \o chunk.key \o " => "
          ELSE chunk.key \o ": ")
         \o TypeText(chunk)

\* the text of the chunks that follow a field on its line
RECURSIVE RestText(_)
RestText(chunks) ==
    IF chunks = <<>> THEN ""
    ELSE (IF Head(chunks).kind = "field" THEN ", " ELSE " ")
         \o ChunkText(Head(chunks)) \o RestText(Tail(chunks))

HoldsBrace(chunk) == chunk.kind = "close" \/ (chunk.kind = "field" /\ chunk.nested)

\* text.includes("}")
includesBrace(chunks) == \E i \in 1..Len(chunks) : HoldsBrace(chunks[i])

\* text.split("}")[0]: the text before the first `}`
beforeBrace(chunks) ==
    LET i == CHOOSE k \in 1..Len(chunks) :
                 HoldsBrace(chunks[k]) /\ \A m \in 1..(k - 1) : ~HoldsBrace(chunks[m])
    IN  SubSeq(chunks, 1, i - 1)
        \o (IF chunks[i].kind = "field"
            THEN <<[chunks[i] EXCEPT !.nested = FALSE]>> ELSE <<>>)

\* line.split("#")[0]: the text before the first `#`
beforeComment(chunks) ==
    IF \E i \in 1..Len(chunks) : chunks[i].kind = "comment"
    THEN SubSeq(chunks, 1,
                (CHOOSE k \in 1..Len(chunks) :
                     /\ chunks[k].kind = "comment"
                     /\ \A m \in 1..(k - 1) : chunks[m].kind # "comment") - 1)
    ELSE chunks

\* <<>> is null.  The three patterns are anchored at both ends of the line
\* and end in (.+)$: the form of the first field gives the key and the flag,
\* and the type is the rest of the line
parseOptionLine(line) ==
    IF line.head # <<>> \/ line.chunks = <<>> THEN <<>>
    ELSE LET first == Head(line.chunks)
         IN  IF first.kind # "field" THEN <<>>
             ELSE <<OptionEntry(":" \o first.key, first.form # "optional",
                                TypeText(first) \o RestText(Tail(line.chunks)))>>

parseMapOptions(lines) ==
    Flatten(MapSeq(LAMBDA line :
                       parseOptionLine(CodeLine(line.head, beforeComment(line.chunks))),
                   lines))

extractCodeBlocks(markdown) ==
    MapSeq(LAMBDA block : block.lines, SelectSeq(markdown, LAMBDA block : block.fenced))

\* the loop over j (lines 1224-1232): the lines from j up to the first one
\* that holds a `}`, that one cut at the brace and i set to its index; all
\* of them, and i left alone (0 here), when none holds a brace
RECURSIVE mapLinesFrom(_, _)
mapLinesFrom(lines, j) ==
    IF j > Len(lines) THEN [mapLines |-> <<>>, i |-> 0]
    ELSE IF includesBrace(lines[j].chunks)
         THEN [mapLines |-> <<CodeLine(lines[j].head, beforeBrace(lines[j].chunks))>>,
               i |-> j]
         ELSE LET rest == mapLinesFrom(lines, j + 1)
              IN  [mapLines |-> <<lines[j]>> \o rest.mapLines, i |-> rest.i]

\* the loop over i (lines 1207-1238) of one block
RECURSIVE typeOptionsFrom(_, _, _)
typeOptionsFrom(lines, i, optionsByType) ==
    IF i > Len(lines) THEN optionsByType
    ELSE IF lines[i].head = <<>> THEN typeOptionsFrom(lines, i + 1, optionsByType)
    ELSE LET typeName == lines[i].head[1]
             inline == lines[i].chunks
             rest == mapLinesFrom(lines, i + 1)
             mapLines ==
                 IF includesBrace(inline) THEN <<CodeLine(<<>>, beforeBrace(inline))>>
                 ELSE (IF inline # <<>> THEN <<CodeLine(<<>>, inline)>> ELSE <<>>)
                      \o rest.mapLines
             last == IF includesBrace(inline) \/ rest.i = 0 THEN i ELSE rest.i
             options == parseMapOptions(mapLines)
         IN  typeOptionsFrom(lines, last + 1,
                             IF options # <<>>
                             THEN (typeName :> options) @@ optionsByType
                             ELSE optionsByType)

RECURSIVE typeOptionsOfBlocks(_, _)
typeOptionsOfBlocks(blocks, optionsByType) ==
    IF blocks = <<>> THEN optionsByType
    ELSE typeOptionsOfBlocks(Tail(blocks),
                             typeOptionsFrom(Head(blocks), 1, optionsByType))

parseTypeOptions(markdown) == typeOptionsOfBlocks(extractCodeBlocks(markdown), <<>>)

(***************************************************************************)
(* Code blocks: function signatures                                        *)
(*                                                                         *)
(* A signature line is [kind |-> "spec", fnName, args, ret], written       *)
(* `@spec fnName(args) :: ret`; an argument is [name, call], written       *)
(* `name()` when call holds and `name` otherwise, and arguments are        *)
(* separated by `, `.  Any other line is [kind |-> "other"].               *)
(***************************************************************************)
SpecLine(fnName, args, ret) == [kind |-> "spec", fnName |-> fnName, args |-> args, ret |-> ret]
OtherLine == [kind |-> "other"]
Arg(name, call) == [name |-> name, call |-> call]

\* the names of the model that [A-Za-z0-9_]+_opts matches
OptsTypeNames == {"fetch_opts", "other_opts"}

RECURSIVE ArgsText(_)
ArgsText(args) ==
    IF args = <<>> THEN ""
    ELSE Head(args).name \o (IF Head(args).call THEN "()" ELSE "")
         \o (IF Tail(args) = <<>> THEN "" ELSE ", " \o ArgsText(Tail(args)))

\* line.trim() of a signature line
SpecText(line) ==
    "@spec " \o line.fnName \o "(" \o ArgsText(line.args) \o ") :: " \o line.ret

\* match[2]: \(([^)]*)\) captures the text between the opening parenthesis
\* and the first `)` of the line.  The pieces are [name, parens]: parens is
\* "none", "open" for `name(` with its `)` cut off, "both" for `name()`
capturedArgs(args) ==
    IF \E i \in 1..Len(args) : args[i].call
    THEN LET i == CHOOSE k \in 1..Len(args) :
                      args[k].call /\ \A m \in 1..(k - 1) : ~args[m].call
         IN  [m \in 1..i |-> [name |-> args[m].name,
                              parens |-> IF m = i THEN "open" ELSE "none"]]
    ELSE [m \in 1..Len(args) |-> [name |-> args[m].name, parens |-> "none"]]

\* args.match(/([A-Za-z0-9_]+_opts)\(\)/)?.[1]: <<>> is undefined
optsMatch(captured) ==
    LET hits == SelectSeq(captured, LAMBDA piece :
                              piece.name \in OptsTypeNames /\ piece.parens = "both")
    IN  IF hits = <<>> THEN <<>> ELSE <<hits[1].name>>

RECURSIVE specsOfLines(_, _)
specsOfLines(lines, specs) ==
    IF lines = <<>> THEN specs
    ELSE LET line == Head(lines)
         IN  specsOfLines(Tail(lines),
                 IF line.kind # "spec" THEN specs
                 ELSE (line.fnName :> [spec |-> SpecText(line),
                                       optsType |-> optsMatch(capturedArgs(line.args))])
                      @@ specs)

RECURSIVE specsOfBlocks(_, _)
specsOfBlocks(blocks, specs) ==
    IF blocks = <<>> THEN specs
    ELSE specsOfBlocks(Tail(blocks), specsOfLines(Head(blocks), specs))

parseSpecs(markdown) == specsOfBlocks(extractCodeBlocks(markdown), <<>>)

(***************************************************************************)
(* HTML text                                                               *)
(*                                                                         *)
(* A text is a sequence of tokens [k, v]: k = "c" for a piece v of         *)
(* character data, "open" for the start tag <v> and "close" for the end    *)
(* tag </v>.  An entity is the piece "&" followed by a piece that holds    *)
(* its name and the semicolon ("amp;", "lt;", "#38;"); such a piece        *)
(* standing alone is plain text.                                           *)
(***************************************************************************)
Ch(v) == [k |-> "c", v |-> v]
Tag(v) == [k |-> "open", v |-> v]
EndTag(v) == [k |-> "close", v |-> v]

\* a variant whose pattern lacks the ampersand
RECURSIVE replaceEntityName(_, _, _)
replaceEntityName(input, name, char) ==
    IF input = <<>> THEN <<>>
    ELSE IF input[1] = Ch(name)
         THEN <<Ch(char)>> \o replaceEntityName(Tail(input), name, char)
         ELSE <<Head(input)>> \o replaceEntityName(Tail(input), name, char)

\* input.replace(/&name/g, char)
RECURSIVE replaceEntity(_, _, _)
replaceEntity(input, name, char) ==
    IF input = <<>> THEN <<>>
    ELSE IF Len(input) >= 2 /\ input[1] = Ch("&") /\ input[2] = Ch(name)
         THEN <<Ch(char)>> \o replaceEntity(SubSeq(input, 3, Len(input)), name, char)
         ELSE <<Head(input)>> \o replaceEntity(Tail(input), name, char)

\* the character references of the model and String.fromCharCode of their
\* values
CharCodes == [raw \in {"#38;", "#x3c;", "#x3e;"} |->
                 IF raw = "#38;" THEN "&" ELSE IF raw = "#x3c;" THEN "<" ELSE ">"]

\* input.replace(/&#(x?[0-9a-fA-F]+);/g, ...)
RECURSIVE replaceCharCodes(_)
replaceCharCodes(input) ==
    IF input = <<>> THEN <<>>
    ELSE IF Len(input) >= 2 /\ input[1] = Ch("&") /\ input[2].k = "c"
            /\ input[2].v \in DOMAIN CharCodes
         THEN <<Ch(CharCodes[input[2].v])>>
              \o replaceCharCodes(SubSeq(input, 3, Len(input)))
         ELSE <<Head(input)>> \o replaceCharCodes(Tail(input))

\* the replacements are made one after another, each over the whole text
decodeHtmlEntities(input) ==
    replaceCharCodes(
        replaceEntity(replaceEntity(replaceEntity(replaceEntity(
            replaceEntity(replaceEntity(input,
                "nbsp;", " "), "amp;", "&"), "lt;", "<"), "gt;", ">"),
                "quot;", "dq"), "#39;", "'"))

(***************************************************************************)
(* htmlToMarkdown on HTML text.  The texts of the model hold headings,     *)
(* paragraphs, div and span elements; the replacements of script, style,   *)
(* comment, pre, li, br, code and a elements find nothing in them.         *)
(***************************************************************************)
NL2 == Ch("\n\n")

HeadingTags == <<"h1", "h2", "h3", "h4", "h5", "h6">>

\* "#".repeat(level) and a space
RECURSIVE Hashes(_)
Hashes(level) == IF level = 0 THEN <<Ch(" ")>> ELSE <<Ch("#")>> \o Hashes(level - 1)

IsTag(token) == token.k \in {"open", "close"}

\* the index of the first token of text from j on that holds a `>`: a tag
\* or the character itself; 0 when there is none
RECURSIVE firstClosing(_, _)
firstClosing(text, j) ==
    IF j > Len(text) THEN 0
    ELSE IF IsTag(text[j]) \/ text[j] = Ch(">") THEN j
    ELSE firstClosing(text, j + 1)

\* input.replace(/<[^>]*>/g, "") when allowEmpty, /<[^>]+>/g otherwise: a
\* match starts at a tag or at a character `<` and ends at the first `>`
RECURSIVE removeTags(_, _)
removeTags(input, allowEmpty) ==
    IF input = <<>> THEN <<>>
    ELSE IF IsTag(Head(input)) THEN removeTags(Tail(input), allowEmpty)
    ELSE IF Head(input) = Ch("<")
         THEN LET j == firstClosing(input, 2)
              IN  IF j = 0 \/ (j = 2 /\ input[2] = Ch(">") /\ ~allowEmpty)
                  THEN <<Head(input)>> \o removeTags(Tail(input), allowEmpty)
                  ELSE removeTags(SubSeq(input, j + 1, Len(input)), allowEmpty)
    ELSE <<Head(input)>> \o removeTags(Tail(input), allowEmpty)

stripTags(input) == decodeHtmlEntities(removeTags(input, TRUE))

\* the index of the first end tag </tag> of output from j on; 0 for none
RECURSIVE firstEndTag(_, _, _)
firstEndTag(output, tag, j) ==
    IF j > Len(output) THEN 0
    ELSE IF output[j] = EndTag(tag) THEN j
    ELSE firstEndTag(output, tag, j + 1)

\* output.replace(/<tag[^>]*>([\s\S]*?)<\/tag>/gi, ...): the content is
\* stripped of its tags and put between blank lines, after the marker
RECURSIVE replaceElements(_, _, _)
replaceElements(output, tag, marker) ==
    IF output = <<>> THEN <<>>
    ELSE LET j == firstEndTag(output, tag, 2)
         IN  IF Head(output) = Tag(tag) /\ j # 0
             THEN LET text == stripTags(SubSeq(output, 2, j - 1))
                  IN  (IF text # <<>> THEN <<NL2>> \o marker \o text \o <<NL2>>
                       ELSE <<NL2>>)
                      \o replaceElements(SubSeq(output, j + 1, Len(output)), tag, marker)
             ELSE <<Head(output)>> \o replaceElements(Tail(output), tag, marker)

\* for (let level = 6; level >= 1; level -= 1)
RECURSIVE convertHeadings(_, _)
convertHeadings(output, level) ==
    IF level = 0 THEN output
    ELSE convertHeadings(replaceElements(output, HeadingTags[level], Hashes(level)),
                         level - 1)

\* output.replace(/\n{3,}/g, "\n\n")
RECURSIVE collapseBlankLines(_)
collapseBlankLines(output) ==
    IF Len(output) < 2 THEN output
    ELSE IF output[1] = NL2 /\ output[2] = NL2 THEN collapseBlankLines(Tail(output))
    ELSE <<Head(output)>> \o collapseBlankLines(Tail(output))

IsSpace(token) == token \in {NL2, Ch(" ")}

RECURSIVE trimStart(_)
trimStart(output) ==
    IF output # <<>> /\ IsSpace(Head(output)) THEN trimStart(Tail(output)) ELSE output

RECURSIVE trimEnd(_)
trimEnd(output) ==
    IF output # <<>> /\ IsSpace(output[Len(output)])
    THEN trimEnd(SubSeq(output, 1, Len(output) - 1)) ELSE output

trim(output) == trimEnd(trimStart(output))

\* htmlToMarkdown of an HTML text
htmlTextToMarkdown(html) ==
    LET headings == convertHeadings(html, 6)
        paragraphs == replaceElements(headings, "p", <<>>)
    IN  trim(collapseBlankLines(decodeHtmlEntities(removeTags(paragraphs, FALSE))))

CallBuildTaskMap ==
    /\ tmOut = <<>>
    /\ tmOut' = <<buildTaskMap(tmIn)>>
    /\ UNCHANGED <<req, pc, loc, calls, inflight, resp, overlap, tmIn, arg, out>>

NextTaskMap == CallBuildTaskMap

\* no invocation of handleRequest and no call of buildTaskMap takes a step
HandlerIdle == UNCHANGED <<req, pc, loc, calls, inflight, resp, overlap, tmIn, tmOut>>

\* a direct call of normalizeLinkTarget: the outcome is [threw, value]
CallNormalizeLinkTarget ==
    /\ out = <<>>
    /\ out' = <<[threw |-> normalizeLinkTargetThrows(arg.href, arg.baseUrl),
                    value |-> normalizeLinkTarget(arg.href, arg.baseUrl,
                                                  arg.wrapperOrigin)]>>
    /\ UNCHANGED arg
    /\ HandlerIdle

NextLinks == CallNormalizeLinkTarget

\* a direct call of insertSectionHeadings
CallInsertSectionHeadings ==
    /\ out = <<>>
    /\ out' = <<insertSectionHeadings(arg.markdown, arg.typeNames,
                                      arg.callbackNames)>>
    /\ UNCHANGED arg
    /\ HandlerIdle

NextHeadings == CallInsertSectionHeadings

\* a direct call of injectFunctionEnhancements
CallInjectFunctionEnhancements ==
    /\ out = <<>>
    /\ out' = <<injectFunctionEnhancements(arg.markdown, arg.optionsByType,
                                           arg.specs)>>
    /\ UNCHANGED arg
    /\ HandlerIdle

NextInject == CallInjectFunctionEnhancements

\* a direct call of parseTypeOptions
CallParseTypeOptions ==
    /\ out = <<>>
    /\ out' = <<parseTypeOptions(arg.markdown)>>
    /\ UNCHANGED arg
    /\ HandlerIdle

NextTypes == CallParseTypeOptions

\* a direct call of parseSpecs
CallParseSpecs ==
    /\ out = <<>>
    /\ out' = <<parseSpecs(arg.markdown)>>
    /\ UNCHANGED arg
    /\ HandlerIdle

NextSpecs == CallParseSpecs

\* a call of decodeHtmlEntities, on the argument and then on its own result
CallDecodeHtmlEntities ==
    /\ Len(out) < 2
    /\ out' = Append(out, decodeHtmlEntities(IF out = <<>> THEN arg.input ELSE out[1]))
    /\ UNCHANGED arg
    /\ HandlerIdle

NextEntities == CallDecodeHtmlEntities

\* a direct call of htmlToMarkdown
CallHtmlToMarkdown ==
    /\ out = <<>>
    /\ out' = <<htmlTextToMarkdown(arg.html)>>
    /\ UNCHANGED arg
    /\ HandlerIdle

NextHtml == CallHtmlToMarkdown

\* a direct call of buildOptionsTable
CallBuildOptionsTable ==
    /\ out = <<>>
    /\ out' = <<buildOptionsTable(arg.options)>>
    /\ arg' = [arg EXCEPT !.options = optionsAfterTable(arg.options)]
    /\ HandlerIdle

NextTable == CallBuildOptionsTable

(***************************************************************************)
(* Requests and upstream answers of the model                              *)
(***************************************************************************)
PKG == Seg("pkg", "")
VER == Seg("1.0.0", "")
PAGE == "Ecto.Repo"

PagePaths ==
    {<<PKG, VER, Seg(PAGE, "html")>>, <<PKG, VER, Seg(PAGE, "md")>>,
     <<PKG, VER, Seg("guide", "")>>,
     <<PKG, Seg(PAGE, "html")>>, <<PKG, Seg(PAGE, "md")>>}

IndexPaths ==
    {<<PKG, VER, Seg("index", "json")>>, <<PKG, VER, Seg("llms", "txt")>>,
     <<PKG, Seg("index", "json")>>, <<PKG, Seg("llms", "txt")>>}

InvalidPaths == {<<>>, <<PKG>>, <<PKG, VER>>}

Paths == PagePaths \cup IndexPaths \cup InvalidPaths

\* a page with more distinct links than the Related Links list holds
ManyLinks ==
    [i \in 1..(MAX_RELATED_LINKS + 1) |->
        LinkItem("page", RelHref("p" \o ToString(i), "html"))]

DocPlain ==
    Doc(PAGE, PAGE, "Repositories.",
        <<LinkItem("Ecto.Query", RelHref("Ecto.Query", "html")),
          RefItem("Ecto.Schema"), RefItem("Other.Mod")>>,
        <<>>, <<>>, <<>>, <<>>)

DocRich ==
    Doc(PAGE, PAGE, undefined,
        <<LinkItem("Other", RelHref("Other", "html")),
          LinkItem("again", RelHref("Other", "html")),
          LinkItem("self", Href("rel", "", <<>>, PAGE, "html", "", "callbacks")),
          LinkItem("top", FragHref("top")),
          LinkItem("ext", Url(EXTERNAL_ORIGIN, <<"a">>, "b", "html")),
          LinkItem("up", Url(UPSTREAM_ORIGIN, <<"pkg", "1.0.0">>, "Ecto.Query", "html")),
          LinkItem("mail", MailtoHref),
          LinkItem("broken", BadHref("x", "html")),
          RefItem("Ecto.Query"), RefItem(PAGE)>>,
        <<"w1", "w2", "w3", "w4">>,
        <<"mix ecto.migrate">>,
        <<"all", "get", "all">>,
        <<"query_opts">>)

DocMany ==
    Doc(PAGE, PAGE \o "\n\nMany.", "Many.",
        <<LinkItem("top", FragHref("top")), LinkItem("mail", MailtoHref)>>
        \o ManyLinks
        \o <<LinkItem("again", RelHref("p1", "html"))>>,
        <<>>, <<>>, <<>>, <<>>)

DocUntitled ==
    Doc(undefined, undefined, undefined,
        <<LinkItem("x", RelHref("other", "html"))>>,
        <<>>, <<>>, <<>>, <<>>)

HtmlPlain ==
    HtmlPage("Ecto.Repo (html)", "From HTML.",
        <<Anchor(RelHref("Ecto.Changeset", "html"), "Ecto.Changeset"),
          Anchor(RelHref("Ecto.Schema", "html"), "")>>,
        <<>>, <<"careful">>)

HtmlCopy ==
    HtmlPage(PAGE, "From HTML.",
        <<Anchor(RelHref(PAGE, "md"), "Copy Markdown"),
          Anchor(RelHref("Ecto.Changeset", "html"), "Ecto.Changeset")>>,
        <<>>, <<>>)

HtmlOtherMd ==
    HtmlPage("", undefined,
        <<Anchor(RelHref("Ecto.Changeset", "html"), "Ecto.Changeset")>>,
        <<RelHref("readme", "md")>>, <<>>)

HtmlBadMd ==
    HtmlPage(PAGE, undefined, <<Anchor(BadHref("x", "md"), "Copy Markdown")>>,
        <<>>, <<>>)

ApiNone == ApiHtml(<<>>, <<>>)
ApiScriptOnly == ApiHtml(<<"sidebar_items-TEST">>, <<>>)
ApiRowsOnly ==
    ApiHtml(<<>>, <<Row(RelHref("Ecto.Query", "html"), "Ecto.Query", TRUE, "Queries.")>>)
ApiRows ==
    ApiHtml(<<"sidebar_items-TEST">>,
        <<Row(RelHref(PAGE, "html"), PAGE, FALSE, "Repositories (summary)."),
          Row(RelHref("Ecto.Query", "html"), "Ecto.Query", TRUE, "Queries."),
          Row(RelHref("x", "html"), "", FALSE, undefined)>>)
ApiTwice ==
    ApiHtml(<<"sidebar_items-TEST">>,
        <<Row(RelHref(PAGE, "html"), PAGE, TRUE, "one"),
          Row(RelHref(PAGE, "html"), PAGE, TRUE, "two")>>)

SidebarGood ==
    SidebarText(TRUE, TRUE,
        JsonValue("object",
            Member("array", <<SidebarModule(PAGE, <<TRUE>>, "Core"),
                              SidebarModule("Ecto.Schema", <<>>, undefined)>>),
            Member("array", <<SidebarExtra("readme", "", "README"),
                              SidebarExtra("getting-started", "Intro", "Getting Started")>>),
            Member("array", <<SidebarTask("Mix.Tasks.Ecto.Migrate", <<FALSE>>, "",
                                          "mix ecto.migrate")>>)))

SidebarTwice ==
    SidebarText(TRUE, TRUE,
        JsonValue("object",
            Member("array", <<SidebarModule("Ecto.Schema", <<>>, undefined),
                              SidebarModule("Ecto.Schema", <<TRUE>>, undefined)>>),
            Member("array", <<SidebarExtra("readme", "", "README"),
                              SidebarExtra("readme", "", "README again")>>),
            Member("array", <<SidebarTask("Mix.Tasks.Ecto.Migrate", <<>>, "",
                                          "mix ecto.migrate"),
                              SidebarTask("Mix.Tasks.Ecto.Migrate", <<>>, "",
                                          "mix ecto.migrate")>>)))

SidebarModulesOnly ==
    SidebarText(TRUE, TRUE,
        JsonValue("object",
            Member("array", <<SidebarModule("Ecto.Schema", <<>>, undefined)>>),
            Absent, Member("null", <<>>)))

SidebarNoPrefix == SidebarText(FALSE, TRUE, SidebarGood.value)
SidebarBadJson == SidebarText(TRUE, FALSE, JsonNull)
SidebarNull == SidebarText(TRUE, TRUE, JsonNull)
SidebarScalar == SidebarText(TRUE, TRUE, JsonValue("scalar", Absent, Absent, Absent))
\* sidebarNodes={"modules":[],"extras":5,"tasks":[]};
SidebarBadShape ==
    SidebarText(TRUE, TRUE,
        JsonValue("object", Member("array", <<>>), Member("scalar", <<>>),
                  Member("array", <<>>)))

Served(bodies) == {Answer(TRUE, 200, body) : body \in bodies}
Refused(blank) == {Answer(TRUE, 404, blank), Answer(TRUE, 500, blank)}
Unreachable(blank) == {Answer(FALSE, 0, blank)}

MdAnswers ==
    Served({DocPlain, DocRich, DocMany, DocUntitled})
    \cup Refused(BlankDoc) \cup Unreachable(BlankDoc)

HtmlAnswers ==
    Served({HtmlPlain, HtmlCopy, HtmlOtherMd, HtmlBadMd})
    \cup Refused(BlankHtml) \cup Unreachable(BlankHtml)

ApiAnswers ==
    Served({ApiNone, ApiScriptOnly, ApiRowsOnly, ApiRows, ApiTwice})
    \cup {Answer(TRUE, 404, BlankApi)} \cup Unreachable(BlankApi)

SidebarAnswers ==
    Served({SidebarGood, SidebarTwice, SidebarModulesOnly, SidebarNoPrefix,
            SidebarBadJson, SidebarNull, SidebarScalar, SidebarBadShape})
    \cup {Answer(TRUE, 404, SidebarGood)}
    \cup Unreachable(BlankSidebar)

Fetchers ==
    [md : MdAnswers, html : HtmlAnswers, api : ApiAnswers, sidebar : SidebarAnswers]

\* the readings of the clock
Clock == {1, 2}

\* an invocation: the request, the fetcher handed to handleRequest and the
\* reading of the clock when the index is stamped
Invocations == [pathname : Paths, fetcher : Fetchers, now : Clock]

\* the smaller set used when invocations run concurrently: page requests
\* whose Markdown and api-reference are served or refused, and index.json
\* requests whose api-reference is served or refused
ConcurrentInvocations ==
    [pathname : {<<PKG, VER, Seg(PAGE, "html")>>, <<PKG, VER, Seg(PAGE, "md")>>},
     fetcher : [md : {Answer(TRUE, 200, DocPlain), Answer(TRUE, 404, BlankDoc)},
                html : {Answer(TRUE, 200, HtmlCopy)},
                api : {Answer(TRUE, 200, ApiRows), Answer(TRUE, 404, BlankApi)},
                sidebar : {Answer(TRUE, 200, SidebarGood)}],
     now : {1}]
    \cup
    [pathname : {<<PKG, VER, Seg("index", "json")>>},
     fetcher : [md : {Answer(TRUE, 200, DocRich)},
                html : {Answer(TRUE, 200, HtmlPlain)},
                api : {Answer(TRUE, 200, ApiRowsOnly), Answer(TRUE, 404, BlankApi)},
                sidebar : {Answer(TRUE, 200, SidebarGood)}],
     now : {2}]

Idle == [pathname |-> <<>>,
         fetcher |-> [md |-> Answer(FALSE, 0, BlankDoc),
                      html |-> Answer(FALSE, 0, BlankHtml),
                      api |-> Answer(FALSE, 0, BlankApi),
                      sidebar |-> Answer(FALSE, 0, BlankSidebar)],
         now |-> 1]

InitProcess(active, invocations) ==
    /\ \E q \in [active -> invocations] :
           req = [r \in Requests |-> IF r \in active THEN q[r] ELSE Idle]
    /\ pc = [r \in Requests |-> IF r \in active THEN "start" ELSE "off"]
    /\ loc = [f \in Requests |-> NoLocals]
    /\ calls = [r \in Requests |-> <<>>]
    /\ inflight = [r \in Requests |-> {}]
    /\ resp = [r \in Requests |-> NoResponse]
    /\ overlap = FALSE
    /\ tmIn = [modules |-> <<>>, guides |-> <<>>, tasks |-> <<>>]
    /\ tmOut = <<>>
    /\ arg = <<>>
    /\ out = <<>>

\* one invocation of handleRequest, any request and any upstream
Init == InitProcess({1}, Invocations)

\* NReq invocations at once
InitConcurrent == InitProcess(Requests, ConcurrentInvocations)

\* a direct call of buildTaskMap
InitTaskMap ==
    /\ req = [r \in Requests |-> Idle]
    /\ pc = [r \in Requests |-> "off"]
    /\ loc = [f \in Requests |-> NoLocals]
    /\ calls = [r \in Requests |-> <<>>]
    /\ inflight = [r \in Requests |-> {}]
    /\ resp = [r \in Requests |-> NoResponse]
    /\ overlap = FALSE
    /\ tmIn \in TaskMapInputs
    /\ tmOut = <<>>
    /\ arg = <<>>
    /\ out = <<>>

\* the hrefs and base URLs handed to normalizeLinkTarget
LinkHrefs ==
    {Href(kind, origin, dir, "B", "html", search, hash) :
        kind \in {"abs"},
        origin \in {UPSTREAM_ORIGIN, "http://hexdocs.pm", EXTERNAL_ORIGIN},
        dir \in {<<>>, <<PKG>>}, search \in {"", "q=1"}, hash \in {"", "x"}}
    \cup {Href("rel", "", <<>>, "B", "html", search, hash) :
              search \in {"", "q=1"}, hash \in {"", "x"}}
    \cup {Href("root", "", <<PKG>>, "B", "html", search, hash) :
              search \in {"", "q=1"}, hash \in {"", "x"}}
    \cup {FragHref(""), FragHref("x"), EmptyHref, MailtoHref, JavascriptHref,
          BadHref("B", "html"), BadHref("", "")}

LinkBases ==
    {Url(UPSTREAM_ORIGIN, <<PKG, VER>>, PAGE, "html"),
     Url(WRAPPER_ORIGIN, <<PKG>>, PAGE, "md")}

LinkInputs ==
    [href : LinkHrefs, baseUrl : LinkBases, wrapperOrigin : {WRAPPER_ORIGIN}]

\* a direct call of one of the text functions on an argument of inputs
InitCall(inputs) ==
    /\ req = [r \in Requests |-> Idle]
    /\ pc = [r \in Requests |-> "off"]
    /\ loc = [f \in Requests |-> NoLocals]
    /\ calls = [r \in Requests |-> <<>>]
    /\ inflight = [r \in Requests |-> {}]
    /\ resp = [r \in Requests |-> NoResponse]
    /\ overlap = FALSE
    /\ tmIn = [modules |-> <<>>, guides |-> <<>>, tasks |-> <<>>]
    /\ tmOut = <<>>
    /\ arg \in inputs
    /\ out = <<>>

InitLinks == InitCall(LinkInputs)

\* the pages of at most MaxLines lines over an alphabet of lines
Pages(alphabet) == UNION {[1..n -> alphabet] : n \in 0..MaxLines}

HeadingInputs ==
    [markdown : Pages({Heading("t"), Heading("init"), Heading("ArgumentError"),
                       Heading("Overview"), Line("text", "Some text.")}),
     typeNames : SUBSET {"t", "ArgumentError"},
     callbackNames : SUBSET {"init", "ArgumentError"}]

InitHeadings == InitCall(HeadingInputs)

FetchOptions ==
    <<[key |-> "timeout", required |-> FALSE, type |-> "integer()"],
      [key |-> "repo", required |-> TRUE, type |-> "module()"]>>

\* the specs and option types parsed from the page: none, a spec of fetch
\* without an option type, with an undeclared one and with a declared one
InjectMaps ==
    {[specs |-> <<>>, optionsByType |-> <<>>],
     [specs |-> [fn \in {"fetch"} |->
                    [spec |-> "@spec fetch(term()) :: term()", optsType |-> <<>>]],
      optionsByType |-> <<>>],
     [specs |-> [fn \in {"fetch"} |->
                    [spec |-> "@spec fetch(fetch_opts()) :: term()",
                     optsType |-> <<"fetch_opts">>]],
      optionsByType |-> <<>>],
     [specs |-> [fn \in {"fetch"} |->
                    [spec |-> "@spec fetch(fetch_opts()) :: term()",
                     optsType |-> <<"fetch_opts">>]],
      optionsByType |-> [type \in {"fetch_opts"} |-> FetchOptions]]}

InjectInputs ==
    {[markdown |-> page, optionsByType |-> maps.optionsByType, specs |-> maps.specs] :
        page \in Pages({Heading("fetch"), Heading("other"), Heading("Ecto.Repo"),
                        BlankLine, Line("anchor", ""), Line("fence", ""),
                        Line("text", "Fetches a thing.")}),
        maps \in InjectMaps}

InitInject == InitCall(InjectInputs)

\* the lines of the code blocks: the declaration of the type `name` on one
\* line, its opening line, fields of the three forms, one with a map type,
\* closing lines, and a second declaration
TypeLines ==
    {CodeLine(<<"name">>, <<Field("arrow", "a", "integer()", FALSE),
                            Field("optional", "b", "boolean()", FALSE), Close>>),
     CodeLine(<<"name">>, <<>>),
     CodeLine(<<>>, <<Field("arrow", "a", "integer()", FALSE)>>),
     CodeLine(<<>>, <<Field("optional", "b", "boolean()", FALSE), Comment>>),
     CodeLine(<<>>, <<Field("colon", "opts", "%{x: integer()", TRUE)>>),
     CodeLine(<<>>, <<Field("colon", "c", "map()", FALSE), Close>>),
     CodeLine(<<>>, <<Close>>),
     CodeLine(<<"other">>, <<Field("colon", "c", "map()", FALSE), Close>>)}

\* pages of one code block, of one stretch outside the fences, and of two
\* code blocks of one line around such a stretch
TypeInputs ==
    {[markdown |-> <<Block(fenced, lines)>>] :
        fenced \in BOOLEAN, lines \in Pages(TypeLines)}
    \cup {[markdown |-> <<Block(TRUE, <<first>>), Block(FALSE, <<>>),
                          Block(TRUE, <<second>>)>>] :
            first \in TypeLines, second \in TypeLines}

InitTypes == InitCall(TypeInputs)

\* signatures of fetch without an option type, with one, with one after a
\* plain argument, a signature of another function, and a line of code
SignatureLines ==
    {SpecLine("fetch", <<Arg("term", TRUE)>>, "term()"),
     SpecLine("fetch", <<Arg("fetch_opts", TRUE)>>, "map()"),
     SpecLine("fetch", <<Arg("url", FALSE), Arg("fetch_opts", TRUE)>>, "map()"),
     SpecLine("other", <<Arg("other_opts", TRUE)>>, "term()"),
     SpecLine("get!", <<Arg("id", FALSE)>>, "t"),
     OtherLine}

SpecInputs ==
    {[markdown |-> <<Block(fenced, lines)>>] :
        fenced \in BOOLEAN, lines \in Pages(SignatureLines)}
    \cup {[markdown |-> <<Block(TRUE, <<first>>), Block(FALSE, <<>>),
                          Block(TRUE, <<second>>)>>] :
            first \in SignatureLines, second \in SignatureLines}

InitSpecs == InitCall(SpecInputs)

\* the texts of at most MaxText pieces of character data
EntityInputs ==
    [input : UNION {[1..n -> {Ch("&"), Ch("amp;"), Ch("lt;"), Ch("#38;"), Ch("a")}] :
                        n \in 0..MaxText}]

InitEntities == InitCall(EntityInputs)

HeadingElement(level, content) ==
    <<Tag(HeadingTags[level])>> \o content \o <<EndTag(HeadingTags[level])>>

\* heading contents: a title, an empty span, `Map&lt;K&gt;`, `a&amp;b`
HeadingContents ==
    {<<Ch("Title")>>,
     <<Tag("span"), EndTag("span")>>,
     <<Ch("Map"), Ch("&"), Ch("lt;"), Ch("K"), Ch("&"), Ch("gt;")>>,
     <<Ch("a"), Ch("&"), Ch("amp;"), Ch("b")>>}

PlainElements ==
    {HeadingElement(level, content) : level \in 1..6, content \in HeadingContents}
    \cup {<<Tag("div"), Ch("text"), EndTag("div")>>,
          <<Tag("p"), Ch("para"), EndTag("p")>>}

\* a second-level heading inside a first-level heading
NestedElement ==
    <<Tag("h1"), Ch("a")>> \o HeadingElement(2, <<Ch("b")>>) \o <<Ch("c"), EndTag("h1")>>

HtmlElements == PlainElements \cup {NestedElement}

\* the HTML texts of at most MaxElements elements, with the elements that
\* the text is made of
HtmlInputs ==
    {[html |-> Flatten(elements), elements |-> elements] :
        elements \in UNION {[1..n -> HtmlElements] : n \in 0..MaxElements}}

InitHtml == InitCall(HtmlInputs)

\* the option lists of at most MaxOptions entries; given is the list as it
\* was handed over
TableInputs ==
    {[options |-> options, given |-> options] :
        options \in UNION {[1..n -> {OptionEntry(":a", TRUE, "integer()"),
                                     OptionEntry(":a", FALSE, "integer()"),
                                     OptionEntry(":b", TRUE, "map()"),
                                     OptionEntry(":b", FALSE, "map()"),
                                     OptionEntry(":c", FALSE, "atom()")}] :
                               n \in 0..MaxOptions}}

InitTable == InitCall(TableInputs)

\* a task page listed under the URL of another page: `mix ecto.migrate`
\* under that of the module Ecto.Migration, `mix ecto.drop` under that of
\* `mix ecto.create`
SharedUrlTask(title) ==
    TaskEntry(title, title, undefined, FALSE,
        PageUrl(WRAPPER_ORIGIN, BASE_PATH,
                IF title = "mix ecto.migrate" THEN "Ecto.Migration"
                ELSE IF title = "mix ecto.drop" THEN "mix ecto.create"
                ELSE title))

SharedUrlInputs ==
    {[modules |-> MapSeq(SampleModule, Chosen(ModuleNames, m)),
      guides |-> MapSeq(SampleGuide, Chosen(GuideIds, g)),
      tasks |-> MapSeq(SharedUrlTask, Chosen(TaskTitles, t))] :
        m \in SmallSubsets(ModuleNames),
        g \in SmallSubsets(GuideIds),
        t \in SmallSubsets(TaskTitles)}

\* a direct call of buildTaskMap on an index whose pages share URLs
InitSharedUrls ==
    /\ req = [r \in Requests |-> Idle]
    /\ pc = [r \in Requests |-> "off"]
    /\ loc = [f \in Requests |-> NoLocals]
    /\ calls = [r \in Requests |-> <<>>]
    /\ inflight = [r \in Requests |-> {}]
    /\ resp = [r \in Requests |-> NoResponse]
    /\ overlap = FALSE
    /\ tmIn \in SharedUrlInputs
    /\ tmOut = <<>>
    /\ arg = <<>>
    /\ out = <<>>

Spec == Init /\ [][Next]_vars

SpecLinks == InitLinks /\ [][NextLinks]_vars

SpecHeadings == InitHeadings /\ [][NextHeadings]_vars

SpecInject == InitInject /\ [][NextInject]_vars

SpecTypes == InitTypes /\ [][NextTypes]_vars

SpecSpecs == InitSpecs /\ [][NextSpecs]_vars

SpecEntities == InitEntities /\ [][NextEntities]_vars

SpecHtml == InitHtml /\ [][NextHtml]_vars

SpecTable == InitTable /\ [][NextTable]_vars

SpecConcurrent == InitConcurrent /\ [][Next]_vars

SpecTaskMap == InitTaskMap /\ [][NextTaskMap]_vars

SpecSharedUrls == InitSharedUrls /\ [][NextTaskMap]_vars

(***************************************************************************)
(* Properties of buildTaskMap (SpecTaskMap)                                *)
(***************************************************************************)
Returned == tmOut # <<>>
TaskMapIds == {tmOut[1][i].id : i \in DOMAIN tmOut[1]}
Present(entries, Key(_)) == {Key(entries[i]) : i \in DOMAIN entries}

\* C9: every entry of the task map returned by buildTaskMap has at least one
\* entrypoint, for every combination of modules, guides and tasks.
C9_EntriesHaveEntrypoints ==
    Returned => \A i \in DOMAIN tmOut[1] : Len(tmOut[1][i].entrypoints) >= 1

\* buildTaskMap returned a task map with several entries, from an index that
\* holds modules, guides and tasks
C9_Witness ==
    /\ Returned
    /\ Len(tmOut[1]) >= 2
    /\ tmIn.modules # <<>> /\ tmIn.guides # <<>> /\ tmIn.tasks # <<>>

\* the module names each rule refers to
RuleModuleNames(id) ==
    CASE id = "migrations" -> {"Ecto.Migration", "Ecto.Migrator"}
      [] id = "repo-setup" -> {"Ecto.Repo"}
      [] id = "schemas" -> {"Ecto.Schema", "Ecto.Changeset"}
      [] id = "queries" -> {"Ecto.Query"}
      [] OTHER -> {}

\* the task titles that make a rule fire
RuleTriggerTasks(id) ==
    CASE id = "migrations" -> {"mix ecto.migrate"}
      [] id = "repo-setup" -> {"mix ecto.create"}
      [] OTHER -> {}

\* C10 as stated: a rule (of those that refer to module names) whose module
\* names are all absent from the index's modules is not in task_map,
\* whatever the guides and tasks.
C10_AsStated ==
    Returned =>
        \A id \in {"migrations", "repo-setup", "schemas", "queries"} :
            RuleModuleNames(id) \cap Present(tmIn.modules, NameOf) = {}
                => id \notin TaskMapIds

\* C10 amended: a rule is not in task_map when its module names are absent
\* from the modules and the task title that also triggers it (mix
\* ecto.migrate for migrations, mix ecto.create for repo-setup; none for
\* schemas and queries) is absent from the tasks, whatever the guides.
C10_AbsentTriggersAbsentRule ==
    Returned =>
        \A id \in {"migrations", "repo-setup", "schemas", "queries"} :
            /\ RuleModuleNames(id) \cap Present(tmIn.modules, NameOf) = {}
            /\ RuleTriggerTasks(id) \cap Present(tmIn.tasks, TitleOf) = {}
            => id \notin TaskMapIds

\* an index without modules whose guides and tasks would resolve entrypoints
\* of schemas and queries: only the task-triggered migrations rule is emitted
C10_Witness ==
    /\ Returned
    /\ tmIn.modules = <<>>
    /\ "getting-started" \in Present(tmIn.guides, IdOf)
    /\ "mix ecto.migrate" \in Present(tmIn.tasks, TitleOf)
    /\ TaskMapIds = {"getting-started", "migrations"}

(***************************************************************************)
(* Properties of handleRequest (Spec, SpecConcurrent)                      *)
(***************************************************************************)
Done(r) == pc[r] = "done"

PathOf(r) == req[r].pathname

ValidRequest(r) ==
    /\ pc[r] # "off"
    /\ parsePathContext(PathOf(r)).packageName # <<>>
    /\ parsePathContext(PathOf(r)).restPath # <<>>

IndexJsonRequest(r) == ValidRequest(r) /\ isIndexJson(req[r])
PageRequest(r) == ValidRequest(r) /\ ~isIndexJson(req[r]) /\ ~isLlms(req[r])
MdRequest(r) == PageRequest(r) /\ endsWithExt(PathOf(r), "md")
HtmlRequest(r) == PageRequest(r) /\ endsWithExt(PathOf(r), "html")

\* the answer the upstream gives r for url
AnswerTo(r, url) == fetchUpstream(req[r].fetcher, url)
Success(a) == a.settled /\ ok(a)
NonSuccess(a) == a.settled /\ ~ok(a)

PrimaryUrl(r) == upstreamUrl(req[r])
FallbackUrl(r) == htmlUrlOf(req[r])
ApiUrl(r) == apiReferenceUrl(req[r])

Sections(r, h) == SelectSeq(resp[r].body, LAMBDA s : s.h = h)
HasSection(r, h) == Sections(r, h) # <<>>
Times(url, fetched) == Cardinality({i \in DOMAIN fetched : fetched[i] = url})

\* r was answered 502 with a document whose section h names url as attempted
\* and the status the upstream gave for it, and url was fetched once
ReportsFailure(r, h, url) ==
    /\ resp[r].status = 502
    /\ HasSection(r, h)
    /\ Sections(r, h)[1].attempted = url
    /\ Sections(r, h)[1].status = <<AnswerTo(r, url).status>>
    /\ Times(url, calls[r]) = 1

\* C1 as stated: whenever the fetch of the requested page is answered with a
\* non-success status, the request is answered 502 with an error document
\* naming the attempted upstream URL and the status, and the fetch is not
\* repeated; likewise, as a JSON error, for index.json and its api-reference.
C1_AsStated ==
    \A r \in Requests :
        Done(r) =>
            /\ (PageRequest(r) /\ NonSuccess(AnswerTo(r, PrimaryUrl(r))))
                   => ReportsFailure(r, "Upstream Error", PrimaryUrl(r))
            /\ (IndexJsonRequest(r) /\ NonSuccess(AnswerTo(r, ApiUrl(r))))
                   => /\ ReportsFailure(r, "error", ApiUrl(r))
                      /\ resp[r].type = "application/json"

\* C1 amended: a non-success status for the requested page is answered 502
\* with the attempted upstream URL and the status, without a second fetch of
\* it, when the path does not end in .md, and when it ends in .md and the
\* .html fallback is answered with a non-success status too; a .md request
\* whose fallback succeeds is answered 200.  For index.json a non-success
\* status of the api-reference fetch is answered 502 with a JSON error object
\* carrying attempted and status.
C1_PrimaryFailureIs502 ==
    \A r \in Requests :
        Done(r) =>
            /\ (PageRequest(r) /\ ~MdRequest(r)
                /\ NonSuccess(AnswerTo(r, PrimaryUrl(r))))
                   => /\ ReportsFailure(r, "Upstream Error", PrimaryUrl(r))
                      /\ calls[r] = <<PrimaryUrl(r)>>
            /\ (MdRequest(r) /\ NonSuccess(AnswerTo(r, PrimaryUrl(r)))
                /\ NonSuccess(AnswerTo(r, FallbackUrl(r))))
                   => /\ ReportsFailure(r, "Upstream Error", PrimaryUrl(r))
                      /\ calls[r] = <<PrimaryUrl(r), FallbackUrl(r)>>
            /\ (MdRequest(r) /\ NonSuccess(AnswerTo(r, PrimaryUrl(r)))
                /\ Success(AnswerTo(r, FallbackUrl(r))))
                   => /\ resp[r].status = 200
                      /\ Times(PrimaryUrl(r), calls[r]) = 1
            /\ (IndexJsonRequest(r) /\ NonSuccess(AnswerTo(r, ApiUrl(r))))
                   => /\ ReportsFailure(r, "error", ApiUrl(r))
                      /\ resp[r].type = "application/json"
                      /\ calls[r] = <<ApiUrl(r)>>

\* an .html page whose upstream answered 404 was answered 502
C1_Witness ==
    \E r \in Requests :
        /\ Done(r) /\ HtmlRequest(r)
        /\ AnswerTo(r, PrimaryUrl(r)).status = 404
        /\ AnswerTo(r, PrimaryUrl(r)).settled
        /\ resp[r].status = 502
        /\ Sections(r, "Upstream Error")[1].status = <<404>>

\* C7: for a path ending in .md the Markdown URL is fetched first; on a
\* non-success status the .html counterpart is fetched next and, if it
\* succeeds, its conversion to Markdown is served; among fetches that return
\* a response the request fails only when both are non-success, and the error
\* then carries the Markdown URL, its status, the fallback URL and its status.
C7_MarkdownFallback ==
    \A r \in Requests :
        (Done(r) /\ MdRequest(r)) =>
            LET md == AnswerTo(r, PrimaryUrl(r))
                html == AnswerTo(r, FallbackUrl(r))
                wrapperUrl == UrlOfPath(WRAPPER_ORIGIN, PathOf(r))
            IN  /\ calls[r][1] = PrimaryUrl(r)
                /\ NonSuccess(md) =>
                       /\ Len(calls[r]) >= 2
                       /\ calls[r][2] = FallbackUrl(r)
                /\ Success(md) => Times(FallbackUrl(r), calls[r]) = 0
                /\ (NonSuccess(md) /\ Success(html)) =>
                       /\ resp[r].status = 200
                       /\ Sections(r, "Page")[1].markdown =
                              rewriteMarkdownLinks(htmlToMarkdown(html.body),
                                                   wrapperUrl, WRAPPER_ORIGIN)
                /\ (md.settled /\ (Success(md) \/ html.settled)) =>
                       (resp[r].status = 502
                            <=> (NonSuccess(md) /\ NonSuccess(html)))
                /\ (NonSuccess(md) /\ NonSuccess(html)) =>
                       /\ resp[r].status = 502
                       /\ Sections(r, "Upstream Error")[1].attempted = PrimaryUrl(r)
                       /\ Sections(r, "Upstream Error")[1].status = <<md.status>>
                       /\ Sections(r, "Upstream Error")[1].fallback
                              = <<FallbackUrl(r)>>
                       /\ Sections(r, "Upstream Error")[1].fallback_status
                              = <<html.status>>

\* a .md request whose Markdown was answered 404 and whose .html fallback was
\* answered 500: it failed, carrying both URLs and both statuses
C7_Witness ==
    \E r \in Requests :
        /\ Done(r) /\ MdRequest(r)
        /\ calls[r] = <<PrimaryUrl(r), FallbackUrl(r)>>
        /\ resp[r].status = 502
        /\ Sections(r, "Upstream Error")[1].status = <<404>>
        /\ Sections(r, "Upstream Error")[1].fallback_status = <<500>>

\* the retrievals of a page request, by what they retrieve
KindOfFetch(r, url) ==
    CASE url = PrimaryUrl(r) -> "page"
      [] url = ApiUrl(r) -> "api"
      [] url.ext = "js" -> "sidebar"
      [] OTHER -> "counterpart"

\* the retrievals r has issued follow one another as rank orders their kinds
Ordered(r, rank) ==
    \A i, j \in DOMAIN calls[r] :
        i < j => rank[KindOfFetch(r, calls[r][i])] < rank[KindOfFetch(r, calls[r][j])]

\* a retrieval is issued only when the one before it has completed
OneAtATime(r) ==
    /\ Cardinality(inflight[r]) <= 1
    /\ inflight[r] # {} => inflight[r] = {calls[r][Len(calls[r])]}
    /\ pc[r] \in Suspended <=> inflight[r] # {}

StatedOrder == [api |-> 1, sidebar |-> 2, page |-> 3, counterpart |-> 4]
CodeOrder == [page |-> 1, counterpart |-> 2, api |-> 3, sidebar |-> 4]

\* the sidebar file the api-reference page of r names (<<>>: none)
SidebarUrlOf(r) == findSidebarItemsUrl(AnswerTo(r, ApiUrl(r)).body, ApiUrl(r))
SidebarDiscovered(r) == Success(AnswerTo(r, ApiUrl(r))) /\ SidebarUrlOf(r) # <<>>

\* C4 as stated: within one page-render request the retrievals are issued one
\* after another in the order api-reference, sidebar (if discovered),
\* requested page, counterpart (optional).
C4_AsStated ==
    \A r \in Requests :
        PageRequest(r) =>
            /\ Ordered(r, StatedOrder)
            /\ OneAtATime(r)
            /\ calls[r] # <<>> => calls[r][1] = ApiUrl(r)

\* C4 amended: within one page-render request the retrievals are issued one
\* after another in the order requested page, counterpart (optional),
\* api-reference, sidebar (only if a sidebar file was discovered); no
\* retrieval starts before the previous one has completed.
C4_PageThenIndex ==
    \A r \in Requests :
        PageRequest(r) =>
            /\ Ordered(r, CodeOrder)
            /\ OneAtATime(r)
            /\ calls[r] # <<>> => calls[r][1] = PrimaryUrl(r)
            /\ \A i \in DOMAIN calls[r] :
                   KindOfFetch(r, calls[r][i]) = "sidebar" =>
                       /\ SidebarDiscovered(r)
                       /\ calls[r][i] = SidebarUrlOf(r)[1]
            /\ (Done(r) /\ Times(ApiUrl(r), calls[r]) = 1 /\ SidebarDiscovered(r))
                   => Times(SidebarUrlOf(r)[1], calls[r]) = 1

\* a page request that issued all four retrievals
C4_Witness ==
    \E r \in Requests :
        /\ Done(r) /\ PageRequest(r)
        /\ Len(calls[r]) = 4
        /\ KindOfFetch(r, calls[r][2]) = "counterpart"
        /\ KindOfFetch(r, calls[r][4]) = "sidebar"
        /\ resp[r].status = 200

\* getMarkdownFromPath returned to handleRequest: the api-reference page is
\* fetched next
PageRetrieved(r) == PageRequest(r) /\ Times(ApiUrl(r), calls[r]) > 0

\* the sidebar nodes buildPackageIndex resolves from a settled answer
NodesOf(a) == IF ok(a) THEN parseSidebarNodes(a.body) ELSE JsonNull
NodesThrow(nodes) ==
    mapThrows(nodes.modules) \/ mapThrows(nodes.extras) \/ mapThrows(nodes.tasks)

\* buildPackageIndex of r does not return an index
IndexAbsent(r) ==
    \/ ~Success(AnswerTo(r, ApiUrl(r)))
    \/ /\ SidebarDiscovered(r)
       /\ \/ ~AnswerTo(r, SidebarUrlOf(r)[1]).settled
          \/ NodesThrow(NodesOf(AnswerTo(r, SidebarUrlOf(r)[1])))

\* the sidebar of r was found but not fetched with success, or not parsed
SidebarFailed(r) ==
    /\ SidebarDiscovered(r)
    /\ \/ ~Success(AnswerTo(r, SidebarUrlOf(r)[1]))
       \/ parseSidebarNodes(AnswerTo(r, SidebarUrlOf(r)[1]).body) = JsonNull

\* the Related Pages section of a page rendered without a known-module set
UnfilteredRelatedPages(r) ==
    LET doc == Sections(r, "Page")[1].markdown
        own == extractModuleName(doc)
        refs == SelectSeq(extractModuleReferences(doc, {}),
                          LAMBDA page : own = <<>> \/ page # own[1])
    IN  renderRelatedPages(Take(refs, MAX_RELATED_PAGES), WRAPPER_ORIGIN,
                           parsePathContext(PathOf(r)).basePath)

IndexOf(r) == Sections(r, "index")[1].index

\* a parsed sidebar value of the shape buildPackageIndex expects
ExpectedShape(value) ==
    /\ value.kind = "object"
    /\ \A member \in {value.modules, value.extras, value.tasks} :
           member.t \in {"array", "absent"}

\* C3 as stated: guides and tasks are the sidebar's extras and tasks, in
\* order, when the sidebar was discovered, fetched with success and parsed;
\* otherwise they are empty; and the index build completes without raising.
C3_AsStated ==
    \A r \in Requests :
        (/\ Done(r) /\ IndexJsonRequest(r)
         /\ Success(AnswerTo(r, ApiUrl(r)))
         /\ SidebarDiscovered(r) => AnswerTo(r, SidebarUrlOf(r)[1]).settled) =>
            LET sidebar == AnswerTo(r, SidebarUrlOf(r)[1])
                parsed == /\ SidebarDiscovered(r)
                          /\ Success(sidebar)
                          /\ sidebar.body.prefix /\ sidebar.body.valid
                          /\ ExpectedShape(sidebar.body.value)
            IN  /\ resp[r].status = 200
                /\ HasSection(r, "index")
                /\ IF parsed
                   THEN /\ MapSeq(IdOf, IndexOf(r).guides) =
                               MapSeq(IdOf, memberOrEmpty(sidebar.body.value.extras))
                        /\ MapSeq(IdOf, IndexOf(r).tasks) =
                               MapSeq(IdOf, memberOrEmpty(sidebar.body.value.tasks))
                   ELSE IndexOf(r).guides = <<>> /\ IndexOf(r).tasks = <<>>

\* C8 as stated: in the index returned, no two modules have the same name, no
\* two guides the same id and no two tasks the same id.
C8_AsStated ==
    \A r \in Requests :
        (Done(r) /\ IndexJsonRequest(r) /\ resp[r].status = 200) =>
            /\ NoDuplicates(MapSeq(NameOf, IndexOf(r).modules))
            /\ NoDuplicates(MapSeq(IdOf, IndexOf(r).guides))
            /\ NoDuplicates(MapSeq(IdOf, IndexOf(r).tasks))

\* r was answered 200 with doc, its links rewritten, as the page
ServedAs(r, doc) ==
    /\ resp[r].status = 200
    /\ HasSection(r, "Page")
    /\ Sections(r, "Page")[1].markdown =
           rewriteMarkdownLinks(doc, UrlOfPath(WRAPPER_ORIGIN, PathOf(r)),
                                WRAPPER_ORIGIN)

\* C6 as stated (the retrieval of an .html path): the HTML page is fetched
\* first; a discovered Markdown URL is fetched next and its text served when
\* that fetch succeeds; when none is found or that fetch is non-success the
\* converted HTML is served and the request still succeeds.
C6_AsStated ==
    \A r \in Requests :
        (Done(r) /\ HtmlRequest(r) /\ Success(AnswerTo(r, PrimaryUrl(r)))) =>
            LET html == AnswerTo(r, PrimaryUrl(r))
                found == findMarkdownUrlFromHtml(html.body, PrimaryUrl(r))
            IN  /\ calls[r][1] = PrimaryUrl(r)
                /\ found.t = "url" =>
                       /\ Len(calls[r]) >= 2 /\ calls[r][2] = found.url
                       /\ Success(AnswerTo(r, found.url))
                              => ServedAs(r, AnswerTo(r, found.url).body)
                       /\ NonSuccess(AnswerTo(r, found.url))
                              => ServedAs(r, htmlToMarkdown(html.body))
                /\ found.t # "url" => ServedAs(r, htmlToMarkdown(html.body))

\* C5: the response of each of several invocations interleaved at their
\* upstream-fetch suspension points equals the response the same invocation
\* produces when handled alone against the same upstream answers.
C5_ResponseAsAlone ==
    \A r \in Requests : Done(r) => resp[r] = handledAlone(req[r])

\* every invocation has answered, after steps of one were taken while another
\* was suspended, for requests of different paths and upstream answers
C5_Witness ==
    /\ overlap
    /\ \A r \in Requests : Done(r)
    /\ \E r1, r2 \in Requests :
           /\ PathOf(r1) # PathOf(r2)
           /\ req[r1].fetcher # req[r2].fetcher
           /\ resp[r1] # resp[r2]

(***************************************************************************)
(* Order and independence of the rules of buildTaskMap (SpecTaskMap)       *)
(***************************************************************************)
RuleOrder == <<"getting-started", "migrations", "repo-setup", "schemas", "queries">>

\* what makes each rule fire, read off the index alone
RuleFires(id, index) ==
    CASE id = "getting-started" ->
            \E i \in DOMAIN index.guides :
                index.guides[i].id \in {"getting-started", "readme"}
      [] OTHER ->
            \/ RuleModuleNames(id) \cap Present(index.modules, NameOf) # {}
            \/ RuleTriggerTasks(id) \cap Present(index.tasks, TitleOf) # {}

\* the names a rule looks up for its entrypoints
RuleLookups(id, index) ==
    CASE id = "getting-started" ->
            [modules |-> <<>>, tasks |-> <<>>,
             guides |-> IF "getting-started" \in Present(index.guides, IdOf)
                        THEN <<"getting-started">> ELSE <<"readme">>]
      [] id = "migrations" ->
            [modules |-> <<"Ecto.Migration", "Ecto.Migrator">>,
             tasks |-> <<"mix ecto.gen.migration", "mix ecto.migrate",
                         "mix ecto.rollback">>,
             guides |-> <<"safe-ecto-migrations">>]
      [] id = "repo-setup" ->
            [modules |-> <<"Ecto.Repo">>,
             tasks |-> <<"mix ecto.create", "mix ecto.drop", "mix ecto.reset">>,
             guides |-> <<"getting-started">>]
      [] id = "schemas" ->
            [modules |-> <<"Ecto.Schema", "Ecto.Changeset">>, tasks |-> <<>>,
             guides |-> <<"getting-started">>]
      [] id = "queries" ->
            [modules |-> <<"Ecto.Query">>, tasks |-> <<>>,
             guides |-> <<"getting-started">>]

\* the labels of the index entries that the names resolve to, in lookup order
LabelsResolved(id, index) ==
    LET lookups == RuleLookups(id, index)
    IN  SelectSeq(lookups.modules, LAMBDA n : n \in Present(index.modules, NameOf))
        \o SelectSeq(lookups.tasks, LAMBDA t : t \in Present(index.tasks, TitleOf))
        \o SelectSeq(lookups.guides, LAMBDA g : g \in Present(index.guides, IdOf))

\* C11: the entries of the task map are a subsequence of (getting-started,
\* migrations, repo-setup, schemas, queries); a rule's entry is emitted
\* exactly when that rule fires on the index, whatever the other rules do,
\* with the entrypoints its own names resolve to; the getting-started rule
\* fires iff a guide with id getting-started or readme exists.
C11_FixedOrderIndependentRules ==
    Returned =>
        /\ IsSubsequence([i \in DOMAIN tmOut[1] |-> tmOut[1][i].id], RuleOrder)
        /\ \A id \in Range(RuleOrder) :
               /\ id \in TaskMapIds <=> RuleFires(id, tmIn)
               /\ \A i \in DOMAIN tmOut[1] :
                      tmOut[1][i].id = id =>
                          [j \in DOMAIN tmOut[1][i].entrypoints |->
                               tmOut[1][i].entrypoints[j].label]
                              = LabelsResolved(id, tmIn)
        /\ "getting-started" \in TaskMapIds
               <=> (\/ "getting-started" \in Present(tmIn.guides, IdOf)
                    \/ "readme" \in Present(tmIn.guides, IdOf))

\* a task map of three rules that are not neighbours in the order: the
\* repo-setup rule did not fire, the rules around it did
C11_Witness ==
    /\ Returned
    /\ Len(tmOut[1]) >= 3
    /\ "getting-started" \in TaskMapIds
    /\ "repo-setup" \notin TaskMapIds
    /\ "queries" \in TaskMapIds


(***************************************************************************)
(* Module sources of the package index                                     *)
(***************************************************************************)
\* the summary rows of the api-reference page of r that name a module
ModuleRows(r) ==
    SelectSeq(AnswerTo(r, ApiUrl(r)).body.rows,
              LAMBDA row : row.href.kind # "empty" /\ row.name # "")

\* the sidebar nodes buildPackageIndex of r resolved
SidebarNodesOf(r) ==
    IF SidebarDiscovered(r) THEN NodesOf(AnswerTo(r, SidebarUrlOf(r)[1]))
    ELSE JsonNull

\* an index.json request answered with a package index
IndexReturned(r) ==
    Done(r) /\ IndexJsonRequest(r) /\ resp[r].status = 200 /\ HasSection(r, "index")

\* C12 as stated: when the api-reference page has module rows, the modules of
\* the index are exactly one entry per row, in order, each with the row's
\* name, the row's summary, the wrapper-origin URL of its href and the
\* derived .md URL; sidebar modules are listed only when there are no rows.
C12_AsStated ==
    \A r \in Requests :
        IndexReturned(r) =>
            LET rows == ModuleRows(r)
                modules == IndexOf(r).modules
            IN  IF rows # <<>>
                THEN /\ Len(modules) = Len(rows)
                     /\ \A i \in DOMAIN rows :
                            LET url == buildWrapperUrl(rows[i].href, ApiUrl(r),
                                                       WRAPPER_ORIGIN)
                            IN  /\ modules[i].name = rows[i].name
                                /\ modules[i].summary = rows[i].summary
                                /\ modules[i].url = url
                                /\ modules[i].markdown_url = toMarkdownUrl(url)
                ELSE MapSeq(NameOf, modules) =
                         MapSeq(IdOf, memberOrEmpty(SidebarNodesOf(r).modules))

\* C12, without the summary: the precedence of the two sources itself
C12_RowsBeforeSidebar ==
    \A r \in Requests :
        IndexReturned(r) =>
            LET rows == ModuleRows(r)
                modules == IndexOf(r).modules
            IN  IF rows # <<>>
                THEN MapSeq(NameOf, modules) = MapSeq(NameOf, rows)
                ELSE MapSeq(NameOf, modules) =
                         MapSeq(IdOf, memberOrEmpty(SidebarNodesOf(r).modules))


\* the sidebar modules of r whose id is name, in order
Counterparts(r, name) ==
    SelectSeq(memberOrEmpty(SidebarNodesOf(r).modules),
              LAMBDA entry : entry.id = name)

\* C13: a ModuleEntry built from a row of the api-reference page has the
\* deprecated flag (false when the sidebar module has none) and the group of
\* the sidebar module with the same id (the last one, should several share
\* it); with no such sidebar module it is not deprecated and has no group.
\* Its name and URLs are those of the row and its summary is the row's or
\* absent, whatever the sidebar holds.
C13_SidebarOverlaysFlagsOnly ==
    \A r \in Requests :
        (IndexReturned(r) /\ ModuleRows(r) # <<>>) =>
            LET rows == ModuleRows(r)
                modules == IndexOf(r).modules
            IN  /\ Len(modules) = Len(rows)
                /\ \A i \in DOMAIN rows :
                       LET same == Counterparts(r, rows[i].name)
                           url == buildWrapperUrl(rows[i].href, ApiUrl(r),
                                                  WRAPPER_ORIGIN)
                       IN  /\ modules[i].name = rows[i].name
                           /\ modules[i].summary \in {rows[i].summary, undefined}
                           /\ modules[i].url = url
                           /\ modules[i].markdown_url = toMarkdownUrl(url)
                           /\ IF same = <<>>
                              THEN /\ modules[i].deprecated = FALSE
                                   /\ modules[i].group = undefined
                              ELSE /\ modules[i].deprecated =
                                          (same[Len(same)].deprecated = <<TRUE>>)
                                   /\ modules[i].group = same[Len(same)].group

\* an index whose first row has a deprecated, grouped sidebar counterpart and
\* whose second row has none
C13_Witness ==
    \E r \in Requests :
        /\ IndexReturned(r)
        /\ Len(ModuleRows(r)) = 2
        /\ Counterparts(r, ModuleRows(r)[1].name) # <<>>
        /\ Counterparts(r, ModuleRows(r)[2].name) = <<>>
        /\ IndexOf(r).modules[1].deprecated = TRUE
        /\ IndexOf(r).modules[1].group = "Core"
        /\ IndexOf(r).modules[2].deprecated = FALSE
        /\ IndexOf(r).modules[2].group = undefined


(***************************************************************************)
(* normalizeLinkTarget                                                     *)
(***************************************************************************)
Called == out # <<>>

\* C14: for an empty href, an href starting with `#`, `mailto:` or
\* `javascript:`, and an href that cannot be resolved, normalizeLinkTarget
\* returns the href as given and raises nothing.
C14_UnresolvedReturnedUnchanged ==
    (Called /\ arg.href.kind \in {"empty", "frag", "mailto", "javascript", "bad"}) =>
        /\ ~out[1].threw
        /\ out[1].value = arg.href

\* normalizeLinkTarget was called on a malformed href and returned it
C14_Witness ==
    /\ Called
    /\ arg.href = BadHref("B", "html")
    /\ ~out[1].threw
    /\ out[1].value = BadHref("B", "html")

\* the parts of href resolved against base, for an href that resolves
ResolvedOrigin(href, base) == IF href.kind = "abs" THEN href.origin ELSE base.origin
ResolvedDir(href, base) == IF href.kind = "rel" THEN base.dir ELSE href.dir

\* C15: an href that resolves is resolved against the base URL; when the host
\* of the resolved URL is hexdocs.pm the result is the wrapper origin followed
\* by the resolved path, query and fragment; otherwise it is the resolved
\* absolute URL.
C15_ResolvedAndRewritten ==
    (Called /\ arg.href.kind \in {"abs", "rel", "root"}) =>
        LET href == arg.href
            origin == ResolvedOrigin(href, arg.baseUrl)
            value == out[1].value
        IN  /\ ~out[1].threw
            /\ value.kind = "abs"
            /\ value.origin =
                   IF origin \in {"https://hexdocs.pm", "http://hexdocs.pm"}
                   THEN arg.wrapperOrigin ELSE origin
            /\ value.dir = ResolvedDir(href, arg.baseUrl)
            /\ value.stem = href.stem /\ value.ext = href.ext
            /\ value.search = href.search /\ value.hash = href.hash

\* a relative href with query and fragment was resolved against an upstream
\* page and rewritten to the wrapper origin
C15_Witness ==
    /\ Called
    /\ arg.href = Href("rel", "", <<>>, "B", "html", "q=1", "x")
    /\ arg.baseUrl.origin = UPSTREAM_ORIGIN
    /\ out[1].value =
           Href("abs", WRAPPER_ORIGIN, <<PKG, VER>>, "B", "html", "q=1", "x")


(***************************************************************************)
(* Related Links and Related Pages of a rendered page                      *)
(***************************************************************************)
\* r was answered with a rendered page
PageRendered(r) ==
    Done(r) /\ PageRequest(r) /\ resp[r].status = 200 /\ HasSection(r, "Page")

PageUrlOf(r) == UrlOfPath(WRAPPER_ORIGIN, PathOf(r))

\* the link targets of the page r was answered with, in order
PageLinkTargets(r) == linkTargets(Sections(r, "Page")[1].markdown)

Resolvable(href) == href.kind \in {"abs", "rel", "root", "frag"}

\* a resolvable link target resolved against the page, upstream hosts being
\* replaced by the wrapper origin
ResolvedTarget(href, page) ==
    LET resolved == newURL(href, page)
    IN  IF resolved.origin \in {"https://hexdocs.pm", "http://hexdocs.pm"}
        THEN [resolved EXCEPT !.origin = WRAPPER_ORIGIN] ELSE resolved

SelfLink(url, page) == url.origin = page.origin /\ SamePathname(url, page)

\* the link targets of the page of r, each resolved (<<url>>) or not (<<>>)
ResolvedTargets(r) ==
    [i \in DOMAIN PageLinkTargets(r) |->
        IF Resolvable(PageLinkTargets(r)[i])
        THEN <<ResolvedTarget(PageLinkTargets(r)[i], PageUrlOf(r))>>
        ELSE <<>>]

\* the positions at which the page of r links, for the first time, to a
\* resolved target that is not the page itself
FirstOccurrences(r) ==
    LET res == ResolvedTargets(r)
        page == PageUrlOf(r)
    IN  {i \in DOMAIN res :
            /\ res[i] # <<>>
            /\ ~SelfLink(res[i][1], page)
            /\ \A j \in 1..(i - 1) : res[j] # res[i]}

RelatedLinksOf(r) == Sections(r, "Related Links")[1].links

\* C16 as stated: the Related Links list holds every resolved link target of
\* the page exactly once, no link to the page itself, and no mailto:,
\* javascript: or unresolvable target.
C16_AsStated ==
    \A r \in Requests :
        PageRendered(r) =>
            LET res == ResolvedTargets(r)
                first == FirstOccurrences(r)
                links == RelatedLinksOf(r)
            IN  /\ Len(Sections(r, "Related Links")) = 1
                /\ NoDuplicates(links)
                /\ Range(links) = {res[i][1] : i \in first}

\* C16, amended: the Related Links list holds, once each and in order of
\* first occurrence, the first 30 distinct resolved link targets of the page
\* that do not point at the page itself (same origin and path, in-page
\* fragments included); mailto:, javascript: and unresolvable targets are
\* not listed.
C16_FirstThirtyDistinct ==
    \A r \in Requests :
        PageRendered(r) =>
            LET res == ResolvedTargets(r)
                first == FirstOccurrences(r)
                links == RelatedLinksOf(r)
                page == PageUrlOf(r)
            IN  /\ Len(Sections(r, "Related Links")) = 1
                /\ NoDuplicates(links)
                /\ \A i \in DOMAIN links :
                       links[i].kind = "abs" /\ ~SelfLink(links[i], page)
                /\ Len(links) =
                       IF Cardinality(first) > 30 THEN 30 ELSE Cardinality(first)
                /\ \A k \in first :
                       LET rank == Cardinality({j \in first : j <= k})
                       IN  rank <= 30 => links[rank] = res[k][1]

\* a page with 31 distinct link targets, a repeated one, an in-page fragment
\* and a mailto: link was rendered with 30 Related Links
C16_Witness ==
    \E r \in Requests :
        /\ PageRendered(r)
        /\ Cardinality(FirstOccurrences(r)) = 31
        /\ Len(PageLinkTargets(r)) = 34
        /\ \E i \in DOMAIN PageLinkTargets(r) : PageLinkTargets(r)[i].kind = "frag"
        /\ \E i \in DOMAIN PageLinkTargets(r) : PageLinkTargets(r)[i].kind = "mailto"
        /\ Len(RelatedLinksOf(r)) = 30


\* the identifiers listed under Related Pages in the answer to r
RelatedPagesOf(r) ==
    IF HasSection(r, "Related Pages")
    THEN MapSeq(LAMBDA url : url.stem, Sections(r, "Related Pages")[1].urls)
    ELSE <<>>

\* the names of the modules of the index built for the page of r (empty
\* when no index was built)
KnownModulesOf(r) ==
    IF IndexAbsent(r) THEN {}
    ELSE IF ModuleRows(r) # <<>>
         THEN {ModuleRows(r)[i].name : i \in DOMAIN ModuleRows(r)}
         ELSE {entry.id : entry \in Range(memberOrEmpty(SidebarNodesOf(r).modules))}

\* the Related Pages hold no identifier twice and, when the index names at
\* least one module, only names of modules of the index
RelatedPagesDistinctAndKnown ==
    \A r \in Requests :
        PageRendered(r) =>
            /\ NoDuplicates(RelatedPagesOf(r))
            /\ KnownModulesOf(r) # {} => Range(RelatedPagesOf(r)) \subseteq KnownModulesOf(r)

\* C17 as stated: the Related Pages never include the module name in the
\* page's first-level heading, hold each identifier at most once and, when
\* the index supplies known modules, hold only names of modules of the index.
C17_AsStated ==
    \A r \in Requests :
        PageRendered(r) =>
            LET doc == Sections(r, "Page")[1].markdown
            IN  /\ doc.title # undefined => doc.title \notin Range(RelatedPagesOf(r))
                /\ NoDuplicates(RelatedPagesOf(r))
                /\ KnownModulesOf(r) # {} =>
                       Range(RelatedPagesOf(r)) \subseteq KnownModulesOf(r)


(***************************************************************************)
(* Layout of the page document                                             *)
(***************************************************************************)
SectionOrder ==
    <<"Navigation", "Source URLs", "Module Synopsis", "Warnings",
      "Operational Workflow", "Page", "Agent Data", "Related Pages", "Guides",
      "Related Links">>

PositionOf(h) == CHOOSE i \in DOMAIN SectionOrder : SectionOrder[i] = h

\* the sections of the body are sections of SectionOrder, in that order, each
\* at most once
InFixedOrder(body) ==
    /\ \A i \in DOMAIN body : body[i].h \in Range(SectionOrder)
    /\ \A i, j \in DOMAIN body :
           i < j => PositionOf(body[i].h) < PositionOf(body[j].h)

\* whether a section has content of its own under its heading
HasContent(section) ==
    CASE section.h = "Navigation" -> TRUE
      [] section.h = "Source URLs" -> TRUE
      [] section.h = "Module Synopsis" ->
            \/ section.purpose \notin {undefined, ""}
            \/ section.entrypoints # <<>>
            \/ section.tasks # <<>>
            \/ section.seeAlso # <<>>
      [] section.h = "Warnings" -> section.warnings # <<>>
      [] section.h = "Operational Workflow" -> section.steps # <<>>
      [] section.h = "Page" -> section.markdown # BlankDoc
      [] section.h = "Agent Data" -> section.opts # <<>>
      [] section.h = "Related Pages" -> section.urls # <<>>
      [] section.h = "Guides" -> section.guides # <<>>
      [] section.h = "Related Links" -> section.links # <<>>
      [] OTHER -> FALSE

\* C18 as stated: the page document lays out its sections in the fixed
\* order, and every section with no content is omitted: no section heading
\* of the document is without content.
C18_AsStated ==
    \A r \in Requests :
        PageRendered(r) =>
            /\ InFixedOrder(resp[r].body)
            /\ \A i \in DOMAIN resp[r].body : HasContent(resp[r].body[i])

\* C18, amended: the page document lays out its sections in the fixed
\* order; every section except the last that has no content is omitted; the
\* Related Links section is always emitted, last, and holds the single line
\* `- (none)` when the page has no related links.
C18_FixedOrderLinksAlways ==
    \A r \in Requests :
        PageRendered(r) =>
            LET body == resp[r].body
                last == body[Len(body)]
            IN  /\ InFixedOrder(body)
                /\ body[1].h = "Navigation"
                /\ \A i \in 1..(Len(body) - 1) : HasContent(body[i])
                /\ last.h = "Related Links"
                /\ last.none <=> last.links = <<>>
                /\ last.none <=> ~HasContent(last)

\* a page with no link to another page was rendered: no synopsis, warnings,
\* workflow, agent-data, related-pages or guides section, and a Related
\* Links section holding `- (none)`
C18_Witness ==
    \E r \in Requests :
        /\ PageRendered(r)
        /\ MapSeq(LAMBDA section : section.h, resp[r].body)
               \in {<<"Navigation", "Source URLs", "Page", "Related Links">>,
                    <<"Navigation", "Page", "Related Links">>}
        /\ resp[r].body[Len(resp[r].body)].none


(***************************************************************************)
(* insertSectionHeadings                                                   *)
(***************************************************************************)
\* the positions of the heading lines of page whose title is in titles
HeadingsAmong(page, titles) ==
    {i \in DOMAIN page :
        page[i].kind = "heading" /\ page[i].text # "" /\ page[i].text \in titles}

\* position i is the first of the positions S
IsFirstOf(i, S) == i \in S /\ \A j \in S : i <= j

\* the headings due before line i of the page passed to insertSectionHeadings
HeadingsDue(i) ==
    (IF IsFirstOf(i, HeadingsAmong(arg.markdown, arg.typeNames))
     THEN <<"Types">> ELSE <<>>)
    \o (IF IsFirstOf(i, HeadingsAmong(arg.markdown, arg.callbackNames))
        THEN <<"Callbacks">> ELSE <<>>)
    \o (IF IsFirstOf(i, HeadingsAmong(arg.markdown, ExceptionTitles))
        THEN <<"Exceptions">> ELSE <<>>)

\* C19 as stated: the output is the input with `## Types`, `## Callbacks`
\* and `## Exceptions` inserted at most once each, before the first heading
\* line whose title is a type name, a callback name or an Error/Exception
\* name; every input line is kept in order and no other line is added.
C19_AsStated ==
    Called =>
        out[1] = Flatten([i \in DOMAIN arg.markdown |->
                     MapSeq(Heading, HeadingsDue(i)) \o <<arg.markdown[i]>>])

\* C19, amended: the same with each inserted heading followed by one blank
\* line: before the first matching heading line stand the headings due for
\* it, in the order Types, Callbacks, Exceptions, each with its blank line.
C19_HeadingsOnceWithBlankLine ==
    Called =>
        out[1] = Flatten([i \in DOMAIN arg.markdown |->
                     Flatten(MapSeq(LAMBDA title : <<Heading(title), BlankLine>>,
                                    HeadingsDue(i)))
                     \o <<arg.markdown[i]>>])

\* a page with two headings that name a type, the first one an exception and
\* a callback too, got the three headings once, before the first heading
C19_Witness ==
    /\ Called
    /\ Cardinality(HeadingsAmong(arg.markdown, arg.typeNames)) >= 2
    /\ HeadingsDue(1) = <<"Types", "Callbacks", "Exceptions">>
    /\ Len(out[1]) = Len(arg.markdown) + 6
    /\ SubSeq(out[1], 1, 7) =
           <<Heading("Types"), BlankLine, Heading("Callbacks"), BlankLine,
             Heading("Exceptions"), BlankLine, arg.markdown[1]>>


(***************************************************************************)
(* injectFunctionEnhancements                                              *)
(***************************************************************************)
\* line is a heading that names a function with a known signature
KnownFunction(line) == IsFunctionHeading(line) /\ line.text \in DOMAIN arg.specs

SpecLineOf(line) == Line("spec", arg.specs[line.text].spec)

\* line j of page is a text line and only lines of the kinds between
\* separate it from line i
FollowsAcross(page, i, j, between) ==
    /\ i < j
    /\ page[j].kind = "text"
    /\ \A k \in (i + 1)..(j - 1) : page[k].kind \in between

CountOf(page, kind) == Cardinality({i \in DOMAIN page : page[i].kind = kind})

\* C20 as stated: every heading naming a function with a known signature is
\* followed, after its anchor-link lines, by the spec line; the first text
\* line after it is emitted as a `Summary:` line, also across blank lines;
\* there is one spec line per such heading and there are no more Summary
\* lines than such headings.
C20_AsStated ==
    Called =>
        LET page == arg.markdown
            known == {i \in DOMAIN page : KnownFunction(page[i])}
        IN  /\ \A p \in DOMAIN out[1] :
                   KnownFunction(out[1][p]) =>
                       \E q \in DOMAIN out[1] :
                           /\ p < q
                           /\ out[1][q] = SpecLineOf(out[1][p])
                           /\ \A k \in (p + 1)..(q - 1) : out[1][k].kind = "anchor"
            /\ \A i \in known : \A j \in DOMAIN page :
                   FollowsAcross(page, i, j, {"blank", "anchor"}) =>
                       Line("summary", page[j].text) \in Range(out[1])
            /\ CountOf(out[1], "spec") = Cardinality(known)
            /\ CountOf(out[1], "summary") <= Cardinality(known)

\* what holds: a text line that follows such a heading directly, or after
\* anchor-link lines only, is emitted as a `Summary:` line after the spec
\* line; headings without a known signature get no spec and no Summary line
SummaryWhenTextFollowsDirectly ==
    Called =>
        LET page == arg.markdown
            known == {i \in DOMAIN page : KnownFunction(page[i])}
        IN  /\ \A i \in known : \A j \in DOMAIN page :
                   FollowsAcross(page, i, j, {"anchor"}) =>
                       Line("summary", page[j].text) \in Range(out[1])
            /\ CountOf(out[1], "spec") <= Cardinality(known)
            /\ CountOf(out[1], "summary") <= Cardinality(known)


(***************************************************************************)
(* C21, C28: the fields of declared map types                              *)
(***************************************************************************)
\* the chunks of lines i..Len(lines), in order
RECURSIVE ChunksFrom(_, _)
ChunksFrom(lines, i) ==
    IF i > Len(lines) THEN <<>> ELSE lines[i].chunks \o ChunksFrom(lines, i + 1)

\* the declaration headed on line i is closed: a closing brace of its own
\* follows (a brace of a nested field belongs to that field's type)
Closed(lines, i) == \E k \in 1..Len(ChunksFrom(lines, i)) : ChunksFrom(lines, i)[k] = Close

\* the fields declared by the declaration headed on line i: those before its
\* own closing brace
DeclaredFields(lines, i) ==
    LET chunks == ChunksFrom(lines, i)
        end == CHOOSE k \in 1..Len(chunks) :
                   chunks[k] = Close /\ \A m \in 1..(k - 1) : chunks[m] # Close
    IN  SelectSeq(SubSeq(chunks, 1, end - 1), LAMBDA chunk : chunk.kind = "field")

\* the line that holds the closing brace of the declaration headed on line i
ClosingLine(lines, i) ==
    CHOOSE j \in i..Len(lines) :
        /\ \E k \in 1..Len(lines[j].chunks) : lines[j].chunks[k] = Close
        /\ \A m \in i..(j - 1) : \A k \in 1..Len(lines[m].chunks) : lines[m].chunks[k] # Close

EntryOf(field) == OptionEntry(":" \o field.key, field.form # "optional", TypeText(field))

\* the page is one code block
OneCodeBlock == Len(arg.markdown) = 1 /\ arg.markdown[1].fenced

HeadLines(lines) == {i \in 1..Len(lines) : lines[i].head # <<>>}

\* C21 (as stated): the declaration
\* `name() :: %{ :a => integer(), optional(:b) => boolean() }` yields for
\* `name` the entries (a, required, integer()), (b, optional, boolean()), and
\* in general a declared map yields one entry for each of its fields, with
\* the flag and the type text of the field, in the order of the declaration,
\* on one line or on several
C21_AsStated ==
    (Called /\ OneCodeBlock) =>
        LET lines == arg.markdown[1].lines
        IN  \A i \in HeadLines(lines) :
                (HeadLines(lines) = {i} /\ Closed(lines, i)
                 /\ DeclaredFields(lines, i) # <<>>)
                => /\ lines[i].head[1] \in DOMAIN out[1]
                   /\ out[1][lines[i].head[1]]
                          = MapSeq(EntryOf, DeclaredFields(lines, i))

\* every line holds at most one field and no field has a map type
OneFieldALine(lines) ==
    \A j \in 1..Len(lines) :
        /\ Cardinality({k \in 1..Len(lines[j].chunks) :
                            lines[j].chunks[k].kind = "field"}) <= 1
        /\ \A k \in 1..Len(lines[j].chunks) :
               lines[j].chunks[k].kind = "field" => ~lines[j].chunks[k].nested

\* one entry for each field, for every declaration of the block, when each
\* field stands on a line of its own, no field has a map type and each
\* declaration is closed before the next one starts
EntryForEachFieldOnItsOwnLine ==
    (Called /\ OneCodeBlock) =>
        LET lines == arg.markdown[1].lines
        IN  (/\ OneFieldALine(lines)
             /\ \A i \in HeadLines(lines) : Closed(lines, i)
             /\ \A i, j \in HeadLines(lines) :
                    i < j => lines[i].head # lines[j].head /\ ClosingLine(lines, i) < j)
            => \A i \in HeadLines(lines) :
                   IF DeclaredFields(lines, i) = <<>>
                   THEN lines[i].head[1] \notin DOMAIN out[1]
                   ELSE /\ lines[i].head[1] \in DOMAIN out[1]
                        /\ out[1][lines[i].head[1]]
                               = MapSeq(EntryOf, DeclaredFields(lines, i))

\* C28 (as stated): a field list that spans several lines, one field a line,
\* is collected up to and including the line of the map's own closing brace
\* and no further: the keys of the entries are the keys of the fields before
\* that brace, even when a field has a map type with a brace of its own, and
\* a declaration after that line is read as well
C28_AsStated ==
    (Called /\ OneCodeBlock) =>
        LET lines == arg.markdown[1].lines
        IN  \A i \in HeadLines(lines) :
                (/\ lines[i].chunks = <<>>
                 /\ Closed(lines, i)
                 /\ DeclaredFields(lines, i) # <<>>
                 /\ \A j \in 1..Len(lines) :
                        Cardinality({k \in 1..Len(lines[j].chunks) :
                                         lines[j].chunks[k].kind = "field"}) <= 1
                 /\ \A j \in HeadLines(lines) :
                        j # i => /\ lines[j].head # lines[i].head
                                 /\ (j < i \/ j > ClosingLine(lines, i)))
                => /\ lines[i].head[1] \in DOMAIN out[1]
                   /\ MapSeq(LAMBDA entry : entry.key, out[1][lines[i].head[1]])
                          = MapSeq(LAMBDA field : ":" \o field.key,
                                   DeclaredFields(lines, i))


(***************************************************************************)
(* C22: one signature entry for a function name, the last one              *)
(***************************************************************************)
\* the signature lines of the code blocks of the page, in document order
SignaturesOf(markdown) ==
    SelectSeq(Flatten(extractCodeBlocks(markdown)), LAMBDA line : line.kind = "spec")

\* the last declaration of fnName
LastDeclaration(signatures, fnName) ==
    signatures[CHOOSE i \in 1..Len(signatures) :
                   /\ signatures[i].fnName = fnName
                   /\ \A j \in (i + 1)..Len(signatures) : signatures[j].fnName # fnName]

\* the option type that an argument of the declaration names
NamedOptsType(line) ==
    LET named == SelectSeq(line.args, LAMBDA a : a.call /\ a.name \in OptsTypeNames)
    IN  IF named = <<>> THEN <<>> ELSE <<named[1].name>>

\* C22 (as stated): parseSpecs keeps one entry for each declared function
\* name, and the entry holds the signature text of the last declaration of
\* the name and the `*_opts` type that an argument of it names, if any
C22_AsStated ==
    Called =>
        LET signatures == SignaturesOf(arg.markdown)
        IN  /\ DOMAIN out[1] = {signatures[i].fnName : i \in 1..Len(signatures)}
            /\ \A fnName \in DOMAIN out[1] :
                   LET last == LastDeclaration(signatures, fnName)
                   IN  /\ out[1][fnName].spec = SpecText(last)
                       /\ out[1][fnName].optsType = NamedOptsType(last)

\* one entry for each name, with the text of the last declaration
LastSignatureTextWins ==
    Called =>
        LET signatures == SignaturesOf(arg.markdown)
        IN  /\ DOMAIN out[1] = {signatures[i].fnName : i \in 1..Len(signatures)}
            /\ \A fnName \in DOMAIN out[1] :
                   out[1][fnName].spec = SpecText(LastDeclaration(signatures, fnName))

\* no entry is linked to an option type
NoEntryLinked == Called => \A fnName \in DOMAIN out[1] : out[1][fnName].optsType = <<>>


(***************************************************************************)
(* C23: the instruction header                                             *)
(***************************************************************************)
\* the body of the response starts with the Navigation block
HeaderOnTop(r) ==
    /\ resp[r].body # <<>>
    /\ "h" \in DOMAIN resp[r].body[1]
    /\ resp[r].body[1].h = "Navigation"

\* C23 (as stated): every response of handleRequest has the instruction
\* header at the top of its body, whatever the path and the outcome
C23_AsStated == \A r \in Requests : Done(r) => HeaderOnTop(r)

\* the Markdown responses to valid requests start with the header of the
\* request's base path; the response to an invalid request and the JSON
\* responses do not hold it
HeaderOnMarkdownOfValidRequests ==
    \A r \in Requests :
        Done(r) =>
            IF ValidRequest(r) /\ ~IndexJsonRequest(r)
            THEN /\ resp[r].type = "text/markdown"
                 /\ resp[r].body[1]
                        = buildInstructionHeader(WRAPPER_ORIGIN,
                                                 parsePathContext(PathOf(r)).basePath)
            ELSE \A i \in 1..Len(resp[r].body) :
                     "h" \in DOMAIN resp[r].body[i] => resp[r].body[i].h # "Navigation"


(***************************************************************************)
(* C25: decoding decoded text                                              *)
(***************************************************************************)
\* the names that follow `&` in the patterns of decodeHtmlEntities
EntityNames ==
    {"nbsp;", "amp;", "lt;", "gt;", "quot;", "#39;"} \cup DOMAIN CharCodes

\* the text holds no entity
PlainText(text) ==
    \A i \in 1..(Len(text) - 1) :
        ~(text[i] = Ch("&") /\ text[i + 1].k = "c" /\ text[i + 1].v \in EntityNames)

DecodedTwice == Len(out) = 2

\* C25 (as stated): decodeHtmlEntities(decodeHtmlEntities(t)) =
\* decodeHtmlEntities(t) for every text t
C25_AsStated == DecodedTwice => out[2] = out[1]

\* C25 (amended): text that holds no entity is left unchanged, and decoding
\* a decoded text again leaves it unchanged exactly when it holds no entity
C25_PlainTextUnchanged ==
    /\ (Len(out) >= 1 /\ PlainText(arg.input)) => out[1] = arg.input
    /\ DecodedTwice => (out[2] = out[1] <=> PlainText(out[1]))

\* an entity was decoded, the result holds none and was decoded again
C25_Witness == DecodedTwice /\ out[1] # arg.input /\ PlainText(out[1])


(***************************************************************************)
(* C24: headings of the six levels                                         *)
(***************************************************************************)
\* the level of a heading element, 0 for another element
LevelOf(element) ==
    IF \E level \in 1..6 : Head(element) = Tag(HeadingTags[level])
    THEN CHOOSE level \in 1..6 : Head(element) = Tag(HeadingTags[level])
    ELSE 0

\* the character data of an element, its entities decoded
DecodedText(element) ==
    decodeHtmlEntities(SelectSeq(element, LAMBDA token : token.k = "c"))

\* the line of a heading between blank lines; a blank line alone for a
\* heading without text; the text of a paragraph between blank lines; the
\* text of another element
StatedMarkdown(element) ==
    IF Head(element) = Tag("p") THEN <<NL2>> \o DecodedText(element) \o <<NL2>>
    ELSE IF LevelOf(element) = 0 THEN DecodedText(element)
    ELSE IF DecodedText(element) = <<>> THEN <<NL2>>
    ELSE <<NL2>> \o Hashes(LevelOf(element)) \o DecodedText(element) \o <<NL2>>

\* C24 (as stated): a heading <hN>text</hN> of any level N in 1..6 becomes
\* the line of N `#`, a space and the entity-decoded text, between blank
\* lines, and a heading whose text is empty once the tags are stripped
\* leaves no `#`
C24_AsStated ==
    (Called /\ \A i \in 1..Len(arg.elements) : arg.elements[i] \in PlainElements)
    => out[1] = trim(collapseBlankLines(Flatten(MapSeq(StatedMarkdown, arg.elements))))

\* the titles whose decoded text holds no `<`
NoAngle(element) == \A i \in 1..Len(DecodedText(element)) : DecodedText(element)[i] # Ch("<")

\* the stated line is written for every heading whose decoded text holds no
\* `<`
HeadingLineOfTitlesWithoutAngle ==
    (Called /\ \A i \in 1..Len(arg.elements) :
                   arg.elements[i] \in PlainElements /\ NoAngle(arg.elements[i]))
    => out[1] = trim(collapseBlankLines(Flatten(MapSeq(StatedMarkdown, arg.elements))))

\* the inner heading of a nested pair is converted first and its line ends
\* up in the line of the outer one
InnerHeadingFirst ==
    (Called /\ arg.elements = <<NestedElement>>)
    => out[1] = Hashes(1) \o <<Ch("a"), NL2>> \o Hashes(2) \o <<Ch("b"), NL2, Ch("c")>>


(***************************************************************************)
(* C26: the rows of an options table                                       *)
(***************************************************************************)
\* the table row of an entry
RowOf(option) ==
    Line("table", "| " \o option.key \o " | "
                  \o (IF option.required THEN "yes" ELSE "no")
                  \o " | " \o option.type \o " |")

\* the rows under the heading and the two header lines
RowsOf(table) == SubSeq(table, 4, Len(table))

\* C26: every entry of the list has one row of its own, the rows of the
\* required entries stand before the rows of the optional ones, entries with
\* the same flag keep their order, and the list handed over is left as it was
C26_RequiredFirstOrderKept ==
    Called =>
        LET rows == RowsOf(out[1])
            n == Len(arg.given)
        IN  /\ Len(rows) = n
            /\ \E p \in [1..n -> 1..n] :
                   /\ \A i, j \in 1..n : i # j => p[i] # p[j]
                   /\ \A i \in 1..n : rows[p[i]] = RowOf(arg.given[i])
                   /\ \A i, j \in 1..n :
                          (i < j /\ arg.given[i].required = arg.given[j].required)
                          => p[i] < p[j]
                   /\ \A i, j \in 1..n :
                          (arg.given[i].required /\ ~arg.given[j].required)
                          => p[i] < p[j]
            /\ arg.options = arg.given

\* an optional entry was declared before a required one and two entries
\* have the same flag
C26_Witness ==
    /\ Called
    /\ \E i, j \in 1..Len(arg.given) :
           i < j /\ ~arg.given[i].required /\ arg.given[j].required
    /\ \E i, j \in 1..Len(arg.given) :
           i < j /\ arg.given[i].required = arg.given[j].required
              /\ arg.given[i] # arg.given[j]


(***************************************************************************)
(* C27: the entrypoints of a task map entry                                *)
(***************************************************************************)
EntryWith(entries, Key(_), key) == entries[CHOOSE i \in DOMAIN entries : Key(entries[i]) = key]

\* the points that the names of rule id resolve to: modules in the listed
\* order, then tasks, then guides
PointsResolved(id, index) ==
    LET lookups == RuleLookups(id, index)
        modules == SelectSeq(lookups.modules, LAMBDA n : n \in Present(index.modules, NameOf))
        tasks == SelectSeq(lookups.tasks, LAMBDA t : t \in Present(index.tasks, TitleOf))
        guides == SelectSeq(lookups.guides, LAMBDA g : g \in Present(index.guides, IdOf))
    IN  [i \in 1..Len(modules) |->
            [label |-> modules[i], url |-> EntryWith(index.modules, NameOf, modules[i]).url]]
        \o [i \in 1..Len(tasks) |->
               [label |-> tasks[i], url |-> EntryWith(index.tasks, TitleOf, tasks[i]).url]]
        \o [i \in 1..Len(guides) |->
               [label |-> EntryWith(index.guides, IdOf, guides[i]).title,
                url |-> EntryWith(index.guides, IdOf, guides[i]).url]]

\* C27: the entrypoints of every entry hold no URL twice; they are the
\* points the rule's names resolve to, modules in the listed order, then
\* tasks, then guides, each URL at its first occurrence
C27_EntrypointsDistinctInOrder ==
    Returned =>
        \A e \in DOMAIN tmOut[1] :
            LET points == tmOut[1][e].entrypoints
                resolved == PointsResolved(tmOut[1][e].id, tmIn)
                firsts == {k \in DOMAIN resolved :
                              \A m \in 1..(k - 1) : resolved[m].url # resolved[k].url}
            IN  /\ \A i, j \in DOMAIN points : i < j => points[i].url # points[j].url
                /\ Len(points) = Cardinality(firsts)
                /\ \A i \in DOMAIN points :
                       \E k \in firsts :
                           /\ points[i] = resolved[k]
                           /\ Cardinality({m \in firsts : m < k}) = i - 1

\* an entry whose names resolve to a module, tasks and a guide, two of them
\* under one URL
C27_Witness ==
    /\ Returned
    /\ \E e \in DOMAIN tmOut[1] :
           LET resolved == PointsResolved(tmOut[1][e].id, tmIn)
               lookups == RuleLookups(tmOut[1][e].id, tmIn)
           IN  /\ Len(tmOut[1][e].entrypoints) < Len(resolved)
               /\ Len(tmOut[1][e].entrypoints) >= 3
               /\ \E i \in DOMAIN lookups.guides :
                      lookups.guides[i] \in Present(tmIn.guides, IdOf)


(***************************************************************************)
(* C29: the status of the response                                         *)
(***************************************************************************)
\* a retrieval that the request cannot do without was not answered with
\* success: the api-reference page for index.json and llms.txt; the
\* requested page, and for a .md path answered with a non-success status
\* its .html fallback as well
RequiredRetrievalFailed(r) ==
    IF ~PageRequest(r) THEN ~Success(AnswerTo(r, ApiUrl(r)))
    ELSE IF MdRequest(r)
         THEN \/ ~AnswerTo(r, PrimaryUrl(r)).settled
              \/ /\ NonSuccess(AnswerTo(r, PrimaryUrl(r)))
                 /\ ~Success(AnswerTo(r, FallbackUrl(r)))
         ELSE ~Success(AnswerTo(r, PrimaryUrl(r)))

InvalidPath(r) ==
    \/ parsePathContext(PathOf(r)).packageName = <<>>
    \/ parsePathContext(PathOf(r)).restPath = <<>>

\* C29 (as stated): every request is answered with status 200, 400 or 502;
\* 400 exactly when the path has no package or no page part, and then
\* nothing is fetched; 502 exactly when a required retrieval failed
C29_AsStated ==
    \A r \in Requests :
        Done(r) =>
            /\ resp[r].status \in {200, 400, 502}
            /\ resp[r].status = 400 <=> InvalidPath(r)
            /\ resp[r].status = 400 => calls[r] = <<>>
            /\ resp[r].status = 502 <=> (~InvalidPath(r) /\ RequiredRetrievalFailed(r))

\* the status is 200, 400 or 502; 400 goes with the invalid paths, without a
\* fetch; a failed required retrieval of a valid request gives 502
StatusOfResponse ==
    \A r \in Requests :
        Done(r) =>
            /\ resp[r].status \in {200, 400, 502}
            /\ resp[r].status = 400 <=> InvalidPath(r)
            /\ resp[r].status = 400 => calls[r] = <<>>
            /\ (~InvalidPath(r) /\ RequiredRetrievalFailed(r)) => resp[r].status = 502


(***************************************************************************)
(* C30: the number of fetches of a request                                 *)
(***************************************************************************)
KindsFetched(r) == [i \in DOMAIN calls[r] |-> KindOfFetch(r, calls[r][i])]

\* the retrievals whose failure ends the request
RequiredKinds(r) ==
    IF ~PageRequest(r) THEN {"api"}
    ELSE IF MdRequest(r) THEN {"page", "counterpart"} ELSE {"page"}

====
